---- MODULE Spec2Model ----
(***************************************************************************)
(* QuickApp: the per-(session, view) lock manager and the RPC execution    *)
(* pipeline of createViewRpcHandler, as state machines.                    *)
(*                                                                         *)
(* One caller is one invocation: of ViewLockManager.acquire in SpecLock,   *)
(* of handleViewRpc in SpecRpc.  An action is one synchronous turn of the  *)
(* JavaScript event loop: everything the code does between two awaits.     *)
(***************************************************************************)
EXTENDS Integers, Sequences, FiniteSets, TLC

\* ------------------------------------------------------------------ bounds
\* Number of acquire() calls issued to one ViewLockManager (SpecLock).
MaxCalls == 3
\* Number of handler invocations on one handler (SpecRpc).
MaxRequests == 2

Callers == 1..MaxCalls
Requests == 1..MaxRequests

\* Session ids and view keys are strings; the lock manager joins them.
SessionIds == {"a", "a:b"}
ViewKeys == {"c", "b:c"}
Pairs == SessionIds \X ViewKeys

\* ------------------------------------------------------------ lock manager
\* lockManager.ts:24  const lockKey = `${sessionId}:${viewKey}`
LockKey(sessionId, viewKey) == sessionId \o ":" \o viewKey

LockKeys == {LockKey(p[1], p[2]) : p \in Pairs}

\* Promise identities.  Each acquire() creates two promises: `next`
\* (resolved by release) and the chained `current.then(() => next)` that is
\* stored in the map.  Promise.resolve() is an already fulfilled promise.
NoEntry == [kind |-> "none", of |-> 0]
ResolvedPromise == [kind |-> "resolved", of |-> 0]
NextPromise(c) == [kind |-> "next", of |-> c]
ChainPromise(c) == [kind |-> "chain", of |-> c]

VARIABLES
  locks,         \* ViewLockManager.locks: lock key -> stored promise, or NoEntry
  nextResolved,  \* callers whose `next` promise has been resolved
  chainSettled,  \* callers whose chained promise has been fulfilled
  current,       \* per caller: the promise `current` captured by its acquire()
  call,          \* per caller: position and locals of the invocation
  arrivals,      \* history: per lock key, callers in the order acquire() was invoked
  grants,        \* history: per lock key, callers in the order acquire() resolved
  store,         \* IViewDataStore: (sessionId, viewKey) -> serialized data, or NoRecord
  store0,        \* history: the store as it was when the handler was created
  initCalls      \* history: per pair, how often createViewData was invoked

\* The session subsystem (JwtTokenService, InMemorySessionManager).
VARIABLES
  now,           \* Date.now(), in milliseconds
  tokenConfig,   \* JwtTokenService.config: secret, issuer, audience
  refreshTokens, \* InMemoryRefreshTokenStore.refreshTokens: set of <<token, claims>>
  issued,        \* history: the tokens the service signed, with what they were signed from
  outcome        \* history: the last session or token operation and its result

sessionVars == <<now, tokenConfig, refreshTokens, issued, outcome>>

\* The migration runner and the database behind its adapter.
VARIABLES
  plan,          \* options.migrations of runMigrationPlan
  target,        \* options.targetVersion
  db,            \* the adapter's database: recorded migrations, and (history) SQL executions
  mig,           \* the run of runMigrationPlan in progress: position, locals, result
  runs           \* history: how many runs were started

migrationVars == <<plan, target, db, mig, runs>>

\* The client runtime's call queue and the ViewController registry.
VARIABLES
  invocations,         \* the invokeMethod calls of one ClientViewControllerBase, in call order
  controllerRegistry,  \* registry.ts controllerRegistry: the entries of the map, one per key
  registrations        \* history: the registerViewController calls, in order

libraryVars == <<invocations, controllerRegistry, registrations>>

lockVars == <<locks, nextResolved, chainSettled, current, arrivals, grants>>
\* What no step of the lock manager or of the RPC handler changes.
fixed == <<store0, sessionVars, migrationVars, libraryVars>>
\* What no step of the session subsystem changes.
rpcVars == <<lockVars, call, store, store0, initCalls>>
vars == <<locks, nextResolved, chainSettled, current, call, arrivals, grants,
          store, store0, initCalls, sessionVars, migrationVars, libraryVars>>

\* An optional value: undefined, or a value.
None == [defined |-> FALSE, value |-> ""]
Some(v) == [defined |-> TRUE, value |-> v]

\* No session or token operation has run.
NoOutcome == [op |-> "none"]
\* No migration plan is given and none runs.
NoRun == [pc |-> "idle"]
MigrationUnused ==
  /\ plan = <<>>
  /\ target = None
  /\ db = [applied |-> {}, executed |-> <<>>]
  /\ mig = NoRun
  /\ runs = 0

\* No client call was made and no controller was registered.
LibraryUnused ==
  /\ invocations = <<>>
  /\ controllerRegistry = {}
  /\ registrations = <<>>

\* The session subsystem as constructed in the repository's tests, unused.
SessionUnused ==
  /\ now = 0
  /\ tokenConfig = [secret |-> "test-secret", issuer |-> None, audience |-> None]
  /\ refreshTokens = {}
  /\ issued = {}
  /\ outcome = NoOutcome

\* Whether promise p is fulfilled in the current state.
Fulfilled(p) ==
  \/ p.kind = "resolved"
  \/ p.kind = "next" /\ p.of \in nextResolved
  \/ p.kind = "chain" /\ p.of \in chainSettled

CurrentPromiseNoWait(lockKey) == ResolvedPromise

\* lockManager.ts:25  this.locks.get(lockKey) ?? Promise.resolve()
CurrentPromise(lockKey) ==
  IF locks[lockKey] = NoEntry THEN ResolvedPromise ELSE locks[lockKey]

\* lockManager.ts:24-37, the synchronous part of acquire(): capture the
\* predecessor, create `next`, store the chained promise.
AcquireCall(c, sessionId, viewKey) ==
  LET lockKey == LockKey(sessionId, viewKey) IN
  /\ current' = [current EXCEPT ![c] = CurrentPromise(lockKey)]
  /\ locks' = [locks EXCEPT ![lockKey] = ChainPromise(c)]
  /\ arrivals' = [arrivals EXCEPT ![lockKey] = Append(@, c)]

\* A release that resolves only when its caller is the tail of the chain.
ReleaseCallTailOnly(c, sessionId, viewKey) ==
  LET lockKey == LockKey(sessionId, viewKey) IN
  IF locks[lockKey] = ChainPromise(c)
  THEN /\ nextResolved' = nextResolved \cup {c}
       /\ locks' = [locks EXCEPT ![lockKey] = NoEntry]
  ELSE UNCHANGED <<nextResolved, locks>>

\* lockManager.ts:31  this.locks.get(lockKey) === next
IsTail(c, lockKey) == locks[lockKey] = NextPromise(c)

\* lockManager.ts:29-34, the release function: resolve `next`, and delete
\* the map entry if it is (identical to) `next`.
ReleaseCall(c, sessionId, viewKey) ==
  LET lockKey == LockKey(sessionId, viewKey) IN
  /\ nextResolved' = nextResolved \cup {c}
  /\ locks' = IF IsTail(c, lockKey)
              THEN [locks EXCEPT ![lockKey] = NoEntry]
              ELSE locks

ChainReadyEarly(c) == Fulfilled(current[c])

\* lockManager.ts:37  current.then(() => next): fulfilled once `current` is
\* fulfilled and then `next` is.
ChainReady(c) == Fulfilled(current[c]) /\ c \in nextResolved

\* lockManager.ts:38  await current
AcquireResolves(c) == Fulfilled(current[c])

InitLock ==
  /\ locks = [k \in LockKeys |-> NoEntry]
  /\ nextResolved = {}
  /\ chainSettled = {}
  /\ arrivals = [k \in LockKeys |-> <<>>]
  /\ grants = [k \in LockKeys |-> <<>>]

\* ------------------------------------------------ lock manager, used alone
IdleCall == [pc |-> "idle", sessionId |-> "", viewKey |-> "", releases |-> 0,
             queued |-> FALSE]

\* A caller invokes acquire(sessionId, viewKey).
Acquire(c) ==
  /\ call[c].pc = "idle"
  /\ \A d \in Callers : d < c => call[d].pc # "idle"
  /\ \E s \in SessionIds, v \in ViewKeys :
       /\ AcquireCall(c, s, v)
       /\ call' = [call EXCEPT ![c] =
                      [pc |-> "waiting", sessionId |-> s, viewKey |-> v, releases |-> 0,
                       queued |-> ~Fulfilled(CurrentPromise(LockKey(s, v)))]]
  /\ UNCHANGED <<nextResolved, chainSettled, grants, store, fixed, initCalls>>

\* The promise job that fulfils a chained promise.
SettleChain(c) ==
  /\ current[c] # NoEntry
  /\ c \notin chainSettled
  /\ ChainReady(c)
  /\ chainSettled' = chainSettled \cup {c}
  /\ UNCHANGED <<locks, nextResolved, current, call, arrivals, grants, store, fixed, initCalls>>

\* acquire() resumes after `await current` and returns the release function.
Grant(c) ==
  /\ call[c].pc = "waiting"
  /\ AcquireResolves(c)
  /\ call' = [call EXCEPT ![c].pc = "holding"]
  /\ grants' = [grants EXCEPT ![LockKey(call[c].sessionId, call[c].viewKey)] = Append(@, c)]
  /\ UNCHANGED <<locks, nextResolved, chainSettled, current, arrivals, store, fixed, initCalls>>

\* Counts the calls of a release function: 0, 1, or 2 for "twice or more".
CountRelease(n) == IF n < 2 THEN n + 1 ELSE n

\* The caller calls its release function (possibly again, any number of times).
Release(c) ==
  /\ call[c].pc \in {"holding", "released"}
  /\ ReleaseCall(c, call[c].sessionId, call[c].viewKey)
  /\ call' = [call EXCEPT ![c].pc = "released", ![c].releases = CountRelease(@)]
  /\ UNCHANGED <<chainSettled, current, arrivals, grants, store, fixed, initCalls>>

NoRecord == [json |-> "absent", counter |-> 0]

InitLockOnly ==
  /\ SessionUnused
  /\ MigrationUnused
  /\ LibraryUnused
  /\ InitLock
  /\ current = [c \in Callers |-> NoEntry]
  /\ call = [c \in Callers |-> IdleCall]
  /\ store = [p \in Pairs |-> NoRecord]
  /\ store0 = store
  /\ initCalls = [p \in Pairs |-> 0]

NextLock == \E c \in Callers : Acquire(c) \/ SettleChain(c) \/ Grant(c) \/ Release(c)

SpecLock == InitLockOnly /\ [][NextLock]_vars

\* The first call of a release function: what a caller that "eventually
\* releases" is bound to do.
FirstRelease(c) == call[c].releases = 0 /\ Release(c)

\* Promise jobs and continuations are run by the event loop; a granted caller
\* eventually calls release (the hypothesis of the eventual-grant guarantee).
SpecLockFair ==
  /\ SpecLock
  /\ \A c \in Callers :
       WF_vars(SettleChain(c)) /\ WF_vars(Grant(c)) /\ WF_vars(FirstRelease(c))

\* ------------------------------------------------------- view data, JSON
\* A view-data value: undefined, null, or an object {counter: n}.
Undefined == [t |-> "undefined", counter |-> 0]
Null == [t |-> "null", counter |-> 0]
Counter(n) == [t |-> "object", counter |-> n]

\* A serialized record's data: the JSON text "null" or '{"counter":n}'.
JsonNull == [json |-> "null", counter |-> 0]
JsonObject(n) == [json |-> "object", counter |-> n]

\* createViewRpcHandler.ts:241, 263  JSON.stringify(viewData ?? null)
Stringify(v) == IF v.t = "object" THEN JsonObject(v.counter) ELSE JsonNull

\* createViewRpcHandler.ts:230  JSON.parse(record.data)
Parse(data) == IF data.json = "object" THEN Counter(data.counter) ELSE Null

\* The store's record of a (sessionId, viewKey): IViewDataStore.load / save.
StoreKeyShared(sessionId, viewKey) == <<"a", viewKey>>

\* createViewRpcHandler.ts:228, 238-242, 260-264: the store is addressed by
\* the two arguments (sessionId, controllerKey).
StoreKey(sessionId, viewKey) == <<sessionId, viewKey>>

\* --------------------------------------------------------------- registry
UndefinedRoles == [defined |-> FALSE, list |-> <<>>]
RoleList(seq) == [defined |-> TRUE, list |-> seq]

NotRegistered == [registered |-> FALSE]

\* The registered controllers.  "c" is a BaseViewController subclass like the
\* sample's SampleView: role-restricted, with an initializer returning
\* {counter: 0}, and with the base class's authorize / onBeforeCall hooks.
\* "b:c" is a plain controller: no role constraint, no hooks, no initializer.
\* Both expose one callable, "inc", which adds its argument to the counter;
\* that of "b:c" is configured with allowUnauthenticated: true (types.ts:34-37).
Registry(key) ==
  CASE key = "c" ->
         [registered |-> TRUE, roles |-> RoleList(<<"x">>),
          hasCreate |-> TRUE, initial |-> Counter(0),
          hasAuthorize |-> TRUE, hasOnBeforeCall |-> TRUE,
          callables |-> <<[key |-> "inc", allowedRoles |-> RoleList(<<"x">>),
                           allowUnauthenticated |-> FALSE]>>]
    [] key = "b:c" ->
         [registered |-> TRUE, roles |-> UndefinedRoles,
          hasCreate |-> FALSE, initial |-> Undefined,
          hasAuthorize |-> FALSE, hasOnBeforeCall |-> FALSE,
          callables |-> <<[key |-> "inc", allowedRoles |-> RoleList(<<>>),
                           allowUnauthenticated |-> TRUE]>>]
    [] OTHER -> NotRegistered

\* Route keys and method keys a request may carry ("" is a missing one).
RouteKeys == {"", "zz", "c", "b:c"}
MethodKeys == {"", "nope", "inc"}

\* createViewRpcHandler.ts:128  entry.callables.find(item => item.config.key === methodKey)
HasCallable(entry, methodKey) ==
  \E i \in 1..Len(entry.callables) : entry.callables[i].key = methodKey
FindCallable(entry, methodKey) ==
  entry.callables[CHOOSE i \in 1..Len(entry.callables) :
                    /\ entry.callables[i].key = methodKey
                    /\ \A j \in 1..(i - 1) : entry.callables[j].key # methodKey]

ResolveErrorRegistryFirst(controllerKey, methodKey) ==
  IF ~Registry(controllerKey).registered THEN "ViewController not found."
  ELSE IF methodKey = "" THEN "Missing method in request body."
  ELSE IF ~HasCallable(Registry(controllerKey), methodKey) THEN "Callable method not found."
  ELSE ""

\* createViewRpcHandler.ts:104-134: parseRequestBody, then resolveCallable.
\* The message of the error thrown, or "" when none is.
ResolveError(controllerKey, methodKey) ==
  IF methodKey = "" THEN "Missing method in request body."
  ELSE IF ~Registry(controllerKey).registered THEN "ViewController not found."
  ELSE IF ~HasCallable(Registry(controllerKey), methodKey) THEN "Callable method not found."
  ELSE ""

\* Which of the checks of ResolveError threw.
ResolveSite(controllerKey, methodKey) ==
  IF methodKey = "" THEN "body"
  ELSE IF ~Registry(controllerKey).registered THEN "controller"
  ELSE "callable"

HasRequiredRoleAll(sessionRoles, allowedRoles) ==
  IF ~allowedRoles.defined \/ Len(allowedRoles.list) = 0 THEN TRUE
  ELSE IF ~sessionRoles.defined \/ Len(sessionRoles.list) = 0 THEN FALSE
  ELSE \A i \in 1..Len(allowedRoles.list) :
         \E j \in 1..Len(sessionRoles.list) : sessionRoles.list[j] = allowedRoles.list[i]

\* createViewRpcHandler.ts:143-154
HasRequiredRole(sessionRoles, allowedRoles) ==
  IF ~allowedRoles.defined \/ Len(allowedRoles.list) = 0 THEN TRUE
  ELSE IF ~sessionRoles.defined \/ Len(sessionRoles.list) = 0 THEN FALSE
  ELSE \E i \in 1..Len(allowedRoles.list) :
         \E j \in 1..Len(sessionRoles.list) : sessionRoles.list[j] = allowedRoles.list[i]

\* createViewRpcHandler.ts:164-175: the message thrown, or "" when none is.
AssertRoleAccess(controllerRoles, callableRoles, sessionRoles) ==
  IF ~HasRequiredRole(sessionRoles, controllerRoles) THEN "Forbidden."
  ELSE IF ~HasRequiredRole(sessionRoles, callableRoles) THEN "Forbidden."
  ELSE ""

GenericMessage == "Unexpected server error."

ErrorResponseEcho(message) ==
  IF message \in {"Missing method in request body.", "Missing view controller key."}
  THEN [status |-> 400, error |-> message]
  ELSE IF message \in {"ViewController not found.", "Callable method not found."}
  THEN [status |-> 404, error |-> message]
  ELSE IF message = "Forbidden." THEN [status |-> 403, error |-> message]
  ELSE [status |-> 500, error |-> message]

\* createViewRpcHandler.ts:368-387: the response written for an error
\* message when no next callback was supplied.
ErrorResponse(message) ==
  IF message \in {"Missing method in request body.", "Missing view controller key."}
  THEN [status |-> 400, error |-> message]
  ELSE IF message \in {"ViewController not found.", "Callable method not found."}
  THEN [status |-> 404, error |-> message]
  ELSE IF message = "Forbidden." THEN [status |-> 403, error |-> message]
  ELSE IF message = "ViewData initializer missing." THEN [status |-> 500, error |-> message]
  ELSE [status |-> 500, error |-> GenericMessage]

\* The record of an invocation that ended in the catch block: its locals
\* (the hydrated view data, the method key and arguments) are gone.
Ended(rec) ==
  [rec EXCEPT !.pc = "done", !.method = "", !.viewData = Undefined, !.amount = 0,
              !.queued = FALSE]

\* createViewRpcHandler.ts:368-387: the mapped status and body are written.
WriteErrorResponse(rec, message) ==
  [rec EXCEPT !.status = ErrorResponse(message).status,
              !.error = ErrorResponse(message).error]

\* createViewRpcHandler.ts:364-367  if (next) { next(error); return; }
CallNext(rec, message) ==
  [rec EXCEPT !.forwarded = message, !.nextCalls = @ + 1]

CatchBlockNoReturn(rec, hasNext, message) ==
  IF hasNext
  THEN WriteErrorResponse(CallNext([Ended(rec) EXCEPT !.next = "supplied"], message), message)
  ELSE WriteErrorResponse([Ended(rec) EXCEPT !.next = "absent"], message)

\* createViewRpcHandler.ts:362-388, the catch block, on a request's record:
\* forward the error to next when there is one, else write the mapped response.
\* The next argument is read here and nowhere else, so the record notes at
\* this point whether the invocation was given one.
CatchBlock(rec, hasNext, message) ==
  IF hasNext
  THEN CallNext([Ended(rec) EXCEPT !.next = "supplied"], message)
  ELSE WriteErrorResponse([Ended(rec) EXCEPT !.next = "absent"], message)

\* What the session manager's requireSession may reject with.
AuthFailures == {"Missing Authorization header.", "Invalid Authorization header format.",
                 "Invalid token signature.", "Token expired."}
\* The roles a verified session may carry.
SessionRoleChoices == {UndefinedRoles, RoleList(<<"x">>), RoleList(<<"y">>)}
\* Messages of errors thrown by controller code (hooks, initializer, method).
ControllerErrors == {"boom", "Forbidden."}
\* The amounts a call may ask to add to the counter (args.arg2); adding 0
\* leaves the view data as it was.
Amounts == {0, 1}
\* Message of a rejected store operation.
StoreError == "store unavailable"
\* Message of the TypeError of `context.viewData.counter += n` on null/undefined.
TypeErrorMessage == "Cannot read properties of null"

\* ------------------------------------------------------ the RPC pipeline
NewRequest ==
  [pc |-> "new", sessionId |-> "", viewKey |-> "", method |-> "", releases |-> 0,
   queued |-> FALSE, viewData |-> Undefined, amount |-> 0, persisted |-> FALSE,
   created |-> FALSE, headers |-> FALSE, status |-> 0, error |-> "",
   forwarded |-> "", failedAt |-> "", bodyViewData |-> Undefined,
   next |-> "unread", nextCalls |-> 0, sessionCalls |-> 0]

\* The store the handler is created over: a new, empty one (as in the
\* repository's handler tests).
InitialStores == { [p \in Pairs |-> NoRecord] }

InitRpc ==
  /\ SessionUnused
  /\ MigrationUnused
  /\ LibraryUnused
  /\ InitLock
  /\ current = [r \in Requests |-> NoEntry]
  /\ call = [r \in Requests |-> NewRequest]
  /\ store \in InitialStores
  /\ store0 = store
  /\ initCalls = [p \in Pairs |-> 0]

\* An error thrown before the inner try block: the catch block alone runs.
\* `site` records which step threw; it is an observation, not handler state.
ThrowBeforeLock(r, site, message) ==
  /\ \E hasNext \in BOOLEAN :
       call' = [call EXCEPT ![r] =
                  CatchBlock([@ EXCEPT !.failedAt = site], hasNext, message)]
  /\ UNCHANGED <<lockVars, store, fixed, initCalls>>

ThrowInTryNoRelease(r, site, message) ==
  /\ \E hasNext \in BOOLEAN :
       call' = [call EXCEPT ![r] =
                  CatchBlock([@ EXCEPT !.failedAt = site], hasNext, message)]
  /\ UNCHANGED lockVars

\* createViewRpcHandler.ts:359-362: an error thrown inside the inner try
\* block: the finally block calls lockRelease(), then the catch block runs.
ThrowInTry(r, site, message) ==
  /\ ReleaseCall(r, call[r].sessionId, call[r].viewKey)
  /\ \E hasNext \in BOOLEAN :
       call' = [call EXCEPT ![r] =
                  CatchBlock([@ EXCEPT !.releases = CountRelease(@), !.failedAt = site],
                             hasNext, message)]
  /\ UNCHANGED <<chainSettled, current, arrivals, grants>>

\* createViewRpcHandler.ts:301-305: no route key: 400 is written and the
\* handler returns, whether or not a next callback was passed.
MissingRouteKey(rec, hasNext) ==
  [rec EXCEPT !.pc = "done", !.status = 400,
              !.error = "Missing view controller key.", !.failedAt = "route",
              !.next = IF hasNext THEN "supplied" ELSE "absent"]

\* createViewRpcHandler.ts:300-309, for a request with this route key and
\* body.method: route key, body and registry checks, then requireSession is
\* called (sessionCalls counts its invocations).
ReceiveWith(r, key, method) ==
  IF key = ""
  THEN /\ \E hasNext \in BOOLEAN :
            call' = [call EXCEPT ![r] = MissingRouteKey(@, hasNext)]
       /\ UNCHANGED <<lockVars, store, fixed, initCalls>>
  ELSE IF ResolveError(key, method) # ""
  THEN ThrowBeforeLock(r, ResolveSite(key, method), ResolveError(key, method))
  ELSE /\ call' = [call EXCEPT ![r].pc = "auth", ![r].viewKey = key,
                               ![r].method = method, ![r].sessionCalls = @ + 1]
       /\ UNCHANGED <<lockVars, store, fixed, initCalls>>

\* The handler is invoked with any route key and body.method.
Receive(r) ==
  /\ call[r].pc = "new"
  /\ \A q \in Requests : q < r => call[q].pc # "new"
  /\ \E key \in RouteKeys, method \in MethodKeys : ReceiveWith(r, key, method)

\* What requireSession settles with: a rejection, or a session.
SessionResults ==
  {[ok |-> FALSE, error |-> m, sessionId |-> "", roles |-> UndefinedRoles] :
     m \in AuthFailures}
    \cup {[ok |-> TRUE, error |-> "", sessionId |-> s, roles |-> roles] :
            s \in SessionIds, roles \in SessionRoleChoices}

AuthenticateWithLockFirst(r, session) ==
  IF ~session.ok
  THEN ThrowBeforeLock(r, "auth", session.error)
  ELSE LET entry == Registry(call[r].viewKey)
           callable == FindCallable(entry, call[r].method)
           denied == AssertRoleAccess(entry.roles, callable.allowedRoles, session.roles)
       IN /\ AcquireCall(r, session.sessionId, call[r].viewKey)
          /\ IF denied # ""
             THEN \E hasNext \in BOOLEAN :
                    call' = [call EXCEPT ![r] =
                               CatchBlock([@ EXCEPT !.failedAt = "role"], hasNext, denied)]
             ELSE call' = [call EXCEPT
                    ![r].pc = "lockWait", ![r].sessionId = session.sessionId,
                    ![r].queued =
                      ~Fulfilled(CurrentPromise(LockKey(session.sessionId, call[r].viewKey)))]
          /\ UNCHANGED <<nextResolved, chainSettled, grants, store, fixed, initCalls>>

AuthenticateWithAnonymous(r, session) ==
  LET entry == Registry(call[r].viewKey)
      callable == FindCallable(entry, call[r].method)
      denied == AssertRoleAccess(entry.roles, callable.allowedRoles, session.roles)
      sessionId == IF session.ok THEN session.sessionId ELSE "a"
  IN IF ~session.ok /\ ~callable.allowUnauthenticated
     THEN ThrowBeforeLock(r, "auth", session.error)
     ELSE IF session.ok /\ denied # ""
     THEN ThrowBeforeLock(r, "role", denied)
     ELSE /\ AcquireCall(r, sessionId, call[r].viewKey)
          /\ call' = [call EXCEPT
               ![r].pc = "lockWait", ![r].sessionId = sessionId,
               ![r].queued =
                 ~Fulfilled(CurrentPromise(LockKey(sessionId, call[r].viewKey)))]
          /\ UNCHANGED <<nextResolved, chainSettled, grants, store, fixed, initCalls>>

\* createViewRpcHandler.ts:309-315, when requireSession settled this way: a
\* rejection goes to the catch block; on a session the role check runs and
\* acquire() is called.
AuthenticateWith(r, session) ==
  IF ~session.ok
  THEN ThrowBeforeLock(r, "auth", session.error)
  ELSE LET entry == Registry(call[r].viewKey)
           callable == FindCallable(entry, call[r].method)
           denied == AssertRoleAccess(entry.roles, callable.allowedRoles, session.roles)
       IN IF denied # ""
          THEN ThrowBeforeLock(r, "role", denied)
          ELSE /\ AcquireCall(r, session.sessionId, call[r].viewKey)
               /\ call' = [call EXCEPT
                    ![r].pc = "lockWait", ![r].sessionId = session.sessionId,
                    ![r].queued =
                      ~Fulfilled(CurrentPromise(LockKey(session.sessionId, call[r].viewKey)))]
               /\ UNCHANGED <<nextResolved, chainSettled, grants, store, fixed, initCalls>>

\* requireSession settles, in any way.
Authenticate(r) ==
  /\ call[r].pc = "auth"
  /\ \E session \in SessionResults : AuthenticateWith(r, session)

EnterTryHeadersOnSuccess(r, refreshed) ==
  /\ call[r].pc = "lockWait"
  /\ AcquireResolves(r)
  /\ grants' = [grants EXCEPT ![LockKey(call[r].sessionId, call[r].viewKey)] = Append(@, r)]
  /\ call' = [call EXCEPT ![r].headers = FALSE,
                          ![r].pc = IF Registry(call[r].viewKey).hasAuthorize
                                    THEN "authorize" ELSE "load"]
  /\ UNCHANGED <<locks, nextResolved, chainSettled, current, arrivals, store, fixed, initCalls>>

\* createViewRpcHandler.ts:312-324: acquire() resolves; refreshed tokens, if
\* the session result carries them, are written to the response headers, the
\* base context is built, the authorize hook (if any) is called, else the
\* store load is issued.
EnterTryWith(r, refreshed) ==
  /\ call[r].pc = "lockWait"
  /\ AcquireResolves(r)
  /\ grants' = [grants EXCEPT ![LockKey(call[r].sessionId, call[r].viewKey)] = Append(@, r)]
  /\ call' = [call EXCEPT ![r].headers = refreshed,
                          ![r].pc = IF Registry(call[r].viewKey).hasAuthorize
                                    THEN "authorize" ELSE "load"]
  /\ UNCHANGED <<locks, nextResolved, chainSettled, current, arrivals, store, fixed, initCalls>>

\* The same, for a session manager whose requireSession always re-issues
\* tokens (InMemorySessionManager.ts:179-186).
EnterTry(r) == EnterTryWith(r, TRUE)

\* createViewRpcHandler.ts:322-324: the authorize hook settles.
AuthorizeHook(r) ==
  /\ call[r].pc = "authorize"
  /\ \/ /\ call' = [call EXCEPT ![r].pc = "load"]
        /\ UNCHANGED <<lockVars, store, fixed, initCalls>>
     \/ /\ \E m \in ControllerErrors : ThrowInTry(r, "authorize", m)
        /\ UNCHANGED <<store, fixed, initCalls>>

RecordPresentNever(record) == FALSE

\* createViewRpcHandler.ts:229  if (record)
RecordPresent(record) == record # NoRecord

\* The step after hydration: onBeforeCall if the controller has it, else the method.
AfterHydrate(viewKey) ==
  IF Registry(viewKey).hasOnBeforeCall THEN "beforeCall" ELSE "method"

LoadCreatesWithoutInitializer(r) ==
  LET key == StoreKey(call[r].sessionId, call[r].viewKey) IN
  /\ call[r].pc = "load"
  /\ \/ /\ ThrowInTry(r, "load", StoreError)
        /\ UNCHANGED <<store, fixed, initCalls>>
     \/ /\ RecordPresent(store[key])
        /\ call' = [call EXCEPT ![r].viewData = Parse(store[key]),
                                ![r].pc = AfterHydrate(call[r].viewKey)]
        /\ UNCHANGED <<lockVars, store, fixed, initCalls>>
     \/ /\ ~RecordPresent(store[key])
        /\ IF ~Registry(call[r].viewKey).hasCreate
           THEN /\ call' = [call EXCEPT ![r].viewData = Null, ![r].pc = "saveInit"]
                /\ UNCHANGED <<lockVars, store, fixed, initCalls>>
           ELSE /\ initCalls' = [initCalls EXCEPT ![key] = @ + 1]
                /\ call' = [call EXCEPT ![r].pc = "create", ![r].created = TRUE]
                /\ UNCHANGED <<lockVars, store, fixed>>

\* createViewRpcHandler.ts:228-237: the store load settles; a record is
\* parsed, else the initializer is checked for and invoked.
Load(r) ==
  LET key == StoreKey(call[r].sessionId, call[r].viewKey) IN
  /\ call[r].pc = "load"
  /\ \/ /\ ThrowInTry(r, "load", StoreError)
        /\ UNCHANGED <<store, fixed, initCalls>>
     \/ /\ RecordPresent(store[key])
        /\ call' = [call EXCEPT ![r].viewData = Parse(store[key]),
                                ![r].pc = AfterHydrate(call[r].viewKey)]
        /\ UNCHANGED <<lockVars, store, fixed, initCalls>>
     \/ /\ ~RecordPresent(store[key])
        /\ IF ~Registry(call[r].viewKey).hasCreate
           THEN /\ ThrowInTry(r, "initializer", "ViewData initializer missing.")
                /\ UNCHANGED <<store, fixed, initCalls>>
           ELSE /\ initCalls' = [initCalls EXCEPT ![key] = @ + 1]
                /\ call' = [call EXCEPT ![r].pc = "create", ![r].created = TRUE]
                /\ UNCHANGED <<lockVars, store, fixed>>

\* createViewRpcHandler.ts:237-242: createViewData settles; its value is saved.
Create(r) ==
  /\ call[r].pc = "create"
  /\ \/ /\ call' = [call EXCEPT ![r].viewData = Registry(call[r].viewKey).initial,
                                ![r].pc = "saveInit"]
        /\ UNCHANGED <<lockVars, store, fixed, initCalls>>
     \/ /\ \E m \in ControllerErrors : ThrowInTry(r, "create", m)
        /\ UNCHANGED <<store, fixed, initCalls>>

\* createViewRpcHandler.ts:238-243, 333-337: the save of the created state
\* settles; the context is built and onBeforeCall or the method is called.
SaveInit(r) ==
  LET key == StoreKey(call[r].sessionId, call[r].viewKey) IN
  /\ call[r].pc = "saveInit"
  /\ \/ /\ store' = [store EXCEPT ![key] = Stringify(call[r].viewData)]
        /\ call' = [call EXCEPT ![r].pc = AfterHydrate(call[r].viewKey)]
        /\ UNCHANGED <<lockVars, fixed, initCalls>>
     \/ /\ ThrowInTry(r, "saveInit", StoreError)
        /\ UNCHANGED <<store, fixed, initCalls>>

\* createViewRpcHandler.ts:335-337: the onBeforeCall hook settles.
OnBeforeCall(r) ==
  /\ call[r].pc = "beforeCall"
  /\ \/ /\ call' = [call EXCEPT ![r].pc = "method"]
        /\ UNCHANGED <<lockVars, store, fixed, initCalls>>
     \/ /\ \E m \in ControllerErrors : ThrowInTry(r, "beforeCall", m)
        /\ UNCHANGED <<store, fixed, initCalls>>

MethodSavesBeforeThrow(r) ==
  LET key == StoreKey(call[r].sessionId, call[r].viewKey) IN
  /\ call[r].pc = "method"
  /\ \/ /\ call[r].viewData.t = "object"
        /\ \E k \in Amounts :
             call' = [call EXCEPT ![r].viewData = Counter(@.counter + k),
                                  ![r].amount = k, ![r].pc = "persist"]
        /\ UNCHANGED <<lockVars, store, fixed, initCalls>>
     \/ /\ call[r].viewData.t # "object"
        /\ ThrowInTry(r, "method", TypeErrorMessage)
        /\ UNCHANGED <<store, fixed, initCalls>>
     \/ /\ call[r].viewData.t = "object"
        /\ \E m \in ControllerErrors : ThrowInTry(r, "method", m)
        /\ store' = [store EXCEPT ![key] = Stringify(Counter(call[r].viewData.counter + 1))]
        /\ UNCHANGED <<fixed, initCalls>>

\* createViewRpcHandler.ts:339-351 with sample.ts:72: the method adds its
\* argument to context.viewData.counter and returns; the final save is issued.
Method(r) ==
  /\ call[r].pc = "method"
  /\ \/ /\ call[r].viewData.t = "object"
        /\ \E k \in Amounts :
             call' = [call EXCEPT ![r].viewData = Counter(@.counter + k),
                                  ![r].amount = k, ![r].pc = "persist"]
        /\ UNCHANGED <<lockVars, store, fixed, initCalls>>
     \/ /\ call[r].viewData.t # "object"
        /\ ThrowInTry(r, "method", TypeErrorMessage)
        /\ UNCHANGED <<store, fixed, initCalls>>
     \/ /\ \E m \in ControllerErrors : ThrowInTry(r, "method", m)
        /\ UNCHANGED <<store, fixed, initCalls>>

PersistWhenChanged(r) ==
  LET key == StoreKey(call[r].sessionId, call[r].viewKey) IN
  /\ call[r].pc = "persist"
  /\ \/ /\ call[r].amount # 0
        /\ store' = [store EXCEPT ![key] = Stringify(call[r].viewData)]
        /\ call' = [call EXCEPT ![r].persisted = TRUE, ![r].pc = "respond"]
        /\ UNCHANGED <<lockVars, fixed, initCalls>>
     \/ /\ call[r].amount = 0
        /\ call' = [call EXCEPT ![r].pc = "respond"]
        /\ UNCHANGED <<lockVars, store, fixed, initCalls>>
     \/ /\ ThrowInTry(r, "persist", StoreError)
        /\ UNCHANGED <<store, fixed, initCalls>>

\* createViewRpcHandler.ts:346-351: the final save settles.
Persist(r) ==
  LET key == StoreKey(call[r].sessionId, call[r].viewKey) IN
  /\ call[r].pc = "persist"
  /\ \/ /\ store' = [store EXCEPT ![key] = Stringify(call[r].viewData)]
        /\ call' = [call EXCEPT ![r].persisted = TRUE, ![r].pc = "respond"]
        /\ UNCHANGED <<lockVars, fixed, initCalls>>
     \/ /\ ThrowInTry(r, "persist", StoreError)
        /\ UNCHANGED <<store, fixed, initCalls>>

\* createViewRpcHandler.ts:353-361: the 200 response is written and the
\* finally block releases the lock.
Respond(r) ==
  /\ call[r].pc = "respond"
  /\ ReleaseCall(r, call[r].sessionId, call[r].viewKey)
  /\ call' = [call EXCEPT ![r].pc = "done", ![r].status = 200,
                          ![r].bodyViewData = call[r].viewData,
                          ![r].viewData = Undefined, ![r].method = "",
                          ![r].releases = CountRelease(@)]
  /\ UNCHANGED <<chainSettled, current, arrivals, grants, store, fixed, initCalls>>

NextRpc ==
  \E r \in Requests :
    \/ Receive(r) \/ Authenticate(r) \/ SettleChain(r) \/ EnterTry(r)
    \/ AuthorizeHook(r) \/ Load(r) \/ Create(r) \/ SaveInit(r)
    \/ OnBeforeCall(r) \/ Method(r) \/ Persist(r) \/ Respond(r)

SpecRpc == InitRpc /\ [][NextRpc]_vars

\* ------------------------------------------- a store that outlives a handler
\* One request to a handler created over a store that is not new.  The store is a dependency handed to createViewRpcHandler and may hold
\* records written before the handler was created: for session "a", a
\* pair's record may be absent, '{"counter":1}' or 'null'.
StoredStores ==
  {s \in [Pairs -> {NoRecord, JsonObject(1), JsonNull}] :
     \A p \in Pairs : p[1] # "a" => s[p] = NoRecord}

InitStored ==
  /\ SessionUnused
  /\ MigrationUnused
  /\ LibraryUnused
  /\ InitLock
  /\ current = [r \in {1} |-> NoEntry]
  /\ call = [r \in {1} |-> NewRequest]
  /\ store \in StoredStores
  /\ store0 = store
  /\ initCalls = [p \in Pairs |-> 0]

NextStored ==
  \/ Receive(1) \/ Authenticate(1) \/ SettleChain(1) \/ EnterTry(1)
  \/ AuthorizeHook(1) \/ Load(1) \/ Create(1) \/ SaveInit(1)
  \/ OnBeforeCall(1) \/ Method(1) \/ Persist(1) \/ Respond(1)

SpecStored == InitStored /\ [][NextStored]_vars

\* --------------------------------------- one request, with what it carries
\* One request, for every choice of its route key, its body.method and what
\* requireSession would settle with for its credentials (a rejection, or a
\* session with or without refreshedTokens).
InitRequest ==
  /\ SessionUnused
  /\ MigrationUnused
  /\ LibraryUnused
  /\ InitLock
  /\ current = [r \in {1} |-> NoEntry]
  /\ \E key \in RouteKeys, method \in MethodKeys, session \in SessionResults,
        refreshed \in BOOLEAN :
       /\ refreshed => session.ok
       /\ call = [r \in {1} |->
                   NewRequest @@
                   [asked |-> [key |-> key, method |-> method, session |-> session,
                               refreshed |-> refreshed]]]
  /\ store \in InitialStores
  /\ store0 = store
  /\ initCalls = [p \in Pairs |-> 0]

\* The handler is invoked with the request.
ReceiveAsked(r) ==
  /\ call[r].pc = "new"
  /\ ReceiveWith(r, call[r].asked.key, call[r].asked.method)

\* requireSession settles as the request's credentials make it.
AuthenticateAsked(r) ==
  /\ call[r].pc = "auth"
  /\ AuthenticateWith(r, call[r].asked.session)

\* acquire() resolves for the request; its session result carries refreshed
\* tokens or not.
EnterTryAsked(r) == EnterTryWith(r, call[r].asked.refreshed)

NextRequest ==
  \/ ReceiveAsked(1) \/ AuthenticateAsked(1) \/ SettleChain(1) \/ EnterTryAsked(1)
  \/ AuthorizeHook(1) \/ Load(1) \/ Create(1) \/ SaveInit(1)
  \/ OnBeforeCall(1) \/ Method(1) \/ Persist(1) \/ Respond(1)

SpecRequest == InitRequest /\ [][NextRequest]_vars

\* ------------------------------------------- the role check, on any roles
\* Longest role list drawn for a constraint or a session.
MaxRoles == 2
RoleNames == {"x", "y"}
RoleLists == UNION {[1..n -> RoleNames] : n \in 0..MaxRoles}
\* A constraint or a session's roles: undefined, or a list of role names.
RoleValues == {UndefinedRoles} \cup {RoleList(l) : l \in RoleLists}

\* One authenticated request that resolved its controller and callable, for
\* every choice of the controller's roles, the callable's allowedRoles and
\* the session's roles.
InitAuthz ==
  /\ SessionUnused
  /\ MigrationUnused
  /\ LibraryUnused
  /\ InitLock
  /\ current = [r \in {1} |-> NoEntry]
  /\ \E cr \in RoleValues, ar \in RoleValues, sr \in RoleValues :
       call = [r \in {1} |->
                 [NewRequest EXCEPT !.pc = "auth"] @@
                 [controllerRoles |-> cr, allowedRoles |-> ar, sessionRoles |-> sr]]
  /\ store = [p \in Pairs |-> NoRecord]
  /\ store0 = store
  /\ initCalls = [p \in Pairs |-> 0]

\* createViewRpcHandler.ts:311 and 362-388: assertRoleAccess runs; a thrown
\* "Forbidden." goes to the catch block, else the request goes on to the lock.
CheckRoles(r) ==
  /\ call[r].pc = "auth"
  /\ LET denied == AssertRoleAccess(call[r].controllerRoles, call[r].allowedRoles,
                                    call[r].sessionRoles)
     IN IF denied # ""
        THEN \E hasNext \in BOOLEAN :
               call' = [call EXCEPT ![r] =
                          CatchBlock([@ EXCEPT !.failedAt = "role"], hasNext, denied)]
        ELSE call' = [call EXCEPT ![r].pc = "lockWait"]
  /\ UNCHANGED <<lockVars, store, fixed, initCalls>>

NextAuthz == CheckRoles(1)

SpecAuthz == InitAuthz /\ [][NextAuthz]_vars

\* ------------------------------------------------- tokens and sessions
\* JwtTokenService.ts:135  claims.exp * 1000 < Date.now()
MsPerSecond == 1000
\* Last second the clock reaches.
MaxSeconds == 1
\* The instants the clock takes: each second's first millisecond, the one
\* after it, and its last.
Instants == {s * MsPerSecond + o : s \in 0..MaxSeconds, o \in {0, 1, MsPerSecond - 1}}

\* InMemorySessionManager.ts:20-35: the manager's configuration.
AccessTokenTtlSeconds == 1
RefreshTokenTtlSeconds == 2
DefaultRoles == <<"defaultRole">>

\* A string that may contain dots, as the sequence of its dot-separated
\* parts: a dot-free text has no parts, a dotted string has no text.
Text(t) == [text |-> [chars |-> t], parts |-> <<>>]
Dotted(parts) == [text |-> [chars |-> ""], parts |-> parts]
EmptyString == Text("")
\* A dot-free text that is the encoding of some content (a base64url text
\* of a JSON document, or of a digest).
Segment(content) == [text |-> content, parts |-> <<>>]
\* JwtTokenService.ts:110  token.split(".")
SplitDots(word) == IF word.parts = <<>> THEN <<word>> ELSE word.parts

\* JwtTokenService.ts:164-166: JSON.stringify leaves out the properties whose
\* value is undefined; the text is then base64url-encoded.
EncodeBase64Url(object) ==
  Segment([json |-> [k \in {k \in DOMAIN object : object[k].defined} |-> object[k].value]])
\* JwtTokenService.ts:168-170: the object whose JSON text the segment encodes.
DecodeBase64Url(segment) == segment.text.json
\* Reading a property of a parsed object: undefined when it has none.
Prop(object, key) == IF key \in DOMAIN object THEN Some(object[key]) ELSE None

\* JwtTokenService.ts:149-153: HMAC-SHA256 of the data under the secret, as
\* a term: equal exactly when secret and data are equal.
Sign(secret, header, payload) == Segment([hmac |-> secret, data |-> <<header, payload>>])

SafeEqualsLengthOnly(a, b) ==
  "hmac" \in DOMAIN a.text /\ "hmac" \in DOMAIN b.text

\* JwtTokenService.ts:155-162
SafeEquals(a, b) == a = b

\* JwtTokenService.ts:94  the header segment
JwtHeader == EncodeBase64Url([alg |-> Some("HS256"), typ |-> Some("JWT")])

JwtPayloadNoIssuer(config, claims, typ) ==
  EncodeBase64Url([sub |-> Some(claims.sub), sid |-> Some(claims.sid),
                   roles |-> Some(claims.roles), exp |-> Some(claims.exp),
                   typ |-> Some(typ), iss |-> None, aud |-> config.audience])

\* JwtTokenService.ts:95-99  the payload segment
JwtPayload(config, claims, typ) ==
  EncodeBase64Url([sub |-> Some(claims.sub), sid |-> Some(claims.sid),
                   roles |-> Some(claims.roles), exp |-> Some(claims.exp),
                   typ |-> Some(typ), iss |-> config.issuer, aud |-> config.audience])

\* JwtTokenService.ts:91-107
SignToken(config, claims, typ) ==
  LET payload == JwtPayload(config, claims, typ) IN
  [token |-> Dotted(<<JwtHeader, payload, Sign(config.secret, JwtHeader, payload)>>),
   expiresAt |-> claims.exp * MsPerSecond]

\* JwtTokenService.ts:49-61
SignAccessToken(config, claims) == SignToken(config, claims, "access")
SignRefreshToken(config, claims) == SignToken(config, claims, "refresh")

Rejected(message) == [ok |-> FALSE, error |-> message]
Resolved(value) == [ok |-> TRUE, value |-> value]

\* `config.issuer &&`: undefined and "" are both falsy.
Truthy(option) == option.defined /\ option.value # ""

ExpiredAt(exp, time) == exp * MsPerSecond < time

VerifyTokenExpiryFirst(config, time, token) ==
  LET parts == SplitDots(token) IN
  IF Len(parts) # 3 THEN Rejected("Malformed token.")
  ELSE LET claims == DecodeBase64Url(parts[2]) IN
       IF ExpiredAt(claims.exp, time) THEN Rejected("Token expired.")
       ELSE IF ~SafeEquals(parts[3], Sign(config.secret, parts[1], parts[2]))
       THEN Rejected("Invalid token signature.")
       ELSE IF Truthy(config.issuer) /\ Prop(claims, "iss") # config.issuer
       THEN Rejected("Invalid token issuer.")
       ELSE IF Truthy(config.audience) /\ Prop(claims, "aud") # config.audience
       THEN Rejected("Invalid token audience.")
       ELSE Resolved(claims)

\* JwtTokenService.ts:109-140
VerifyToken(config, time, token) ==
  LET parts == SplitDots(token) IN
  IF Len(parts) # 3 THEN Rejected("Malformed token.")
  ELSE IF ~SafeEquals(parts[3], Sign(config.secret, parts[1], parts[2]))
  THEN Rejected("Invalid token signature.")
  ELSE LET claims == DecodeBase64Url(parts[2]) IN
       IF Truthy(config.issuer) /\ Prop(claims, "iss") # config.issuer
       THEN Rejected("Invalid token issuer.")
       ELSE IF Truthy(config.audience) /\ Prop(claims, "aud") # config.audience
       THEN Rejected("Invalid token audience.")
       ELSE IF ExpiredAt(claims.exp, time) THEN Rejected("Token expired.")
       ELSE Resolved(claims)

\* JwtTokenService.ts:142-147
StripTokenType(claims) ==
  [sub |-> claims.sub, sid |-> claims.sid, roles |-> claims.roles, exp |-> claims.exp]

VerifyTypedAnyKind(config, time, token, typ) ==
  LET verified == VerifyToken(config, time, token) IN
  IF ~verified.ok THEN verified
  ELSE Resolved(StripTokenType(verified.value))

\* JwtTokenService.ts:69-89
VerifyTyped(config, time, token, typ) ==
  LET verified == VerifyToken(config, time, token) IN
  IF ~verified.ok THEN verified
  ELSE IF Prop(verified.value, "typ") # Some(typ) THEN Rejected("Invalid token type.")
  ELSE Resolved(StripTokenType(verified.value))
VerifyAccessToken(config, time, token) == VerifyTyped(config, time, token, "access")
VerifyRefreshToken(config, time, token) == VerifyTyped(config, time, token, "refresh")

\* InMemorySessionManager.ts:141-143  userId ?? username ?? "anonymous"
ResolveUserId(credentials) ==
  IF credentials.userId.defined THEN credentials.userId.value
  ELSE IF credentials.username.defined THEN credentials.username.value
  ELSE "anonymous"

\* InMemorySessionManager.ts:145-148
GenerateSessionId(userId, time) == userId \o "-" \o ToString(time)

\* InMemorySessionManager.ts:150-163
BuildClaims(userId, sessionId, roles, ttlSeconds, time) ==
  [sub |-> userId, sid |-> sessionId, roles |-> roles,
   exp |-> (time + ttlSeconds * MsPerSecond) \div MsPerSecond]

\* InMemoryRefreshTokenStore.ts:19-21  Map.set(token, claims)
SaveRefreshToken(saved, token, claims) ==
  {e \in saved : e[1] # token} \cup {<<token, claims>>}

\* InMemorySessionManager.ts:90-105: the tokens returned, the claims they
\* were signed from, and the refresh-token store afterwards.
CreateSession(config, time, saved, userId, roles) ==
  LET sessionId == GenerateSessionId(userId, time)
      accessClaims == BuildClaims(userId, sessionId, roles, AccessTokenTtlSeconds, time)
      refreshClaims == BuildClaims(userId, sessionId, roles, RefreshTokenTtlSeconds, time)
      accessToken == SignAccessToken(config, accessClaims)
      refreshToken == SignRefreshToken(config, refreshClaims)
  IN [tokens |-> [accessToken |-> accessToken.token,
                  refreshToken |-> refreshToken.token,
                  expiresAt |-> accessToken.expiresAt],
      accessClaims |-> accessClaims,
      refreshClaims |-> refreshClaims,
      saved |-> SaveRefreshToken(saved, refreshToken.token, refreshClaims)]

\* InMemorySessionManager.ts:179-186: the second dot-separated part of the token.
ExtractSessionId(accessToken) ==
  IF Len(SplitDots(accessToken)) < 2 THEN Text("unknown") ELSE SplitDots(accessToken)[2]

\* InMemorySessionManager.ts:68-81
AuthenticateUser(config, time, saved, credentials) ==
  LET userId == ResolveUserId(credentials)
      session == CreateSession(config, time, saved, userId, DefaultRoles)
  IN [result |-> Resolved([sessionInfo |-> [userId |-> userId,
                                            sessionId |-> ExtractSessionId(session.tokens.accessToken),
                                            roles |-> DefaultRoles],
                           tokens |-> session.tokens]),
      session |-> session,
      saved |-> session.saved]

\* The authorization header of a request: absent, an array of strings, or a
\* string, given as the words between its spaces.
HeaderAbsent == [kind |-> "absent", words |-> <<>>]
HeaderArray(words) == [kind |-> "array", words |-> words]
HeaderString(words) == [kind |-> "string", words |-> words]

ExtractAccessTokenAnyScheme(header) ==
  IF header.kind # "string" \/ header.words = <<EmptyString>>
  THEN Rejected("Missing Authorization header.")
  ELSE IF Len(header.words) < 2 \/ header.words[2] = EmptyString
  THEN Rejected("Invalid Authorization header format.")
  ELSE Resolved(header.words[2])

\* InMemorySessionManager.ts:165-177
ExtractAccessToken(header) ==
  IF header.kind # "string" \/ header.words = <<EmptyString>>
  THEN Rejected("Missing Authorization header.")
  ELSE IF header.words[1] # Text("Bearer") \/ Len(header.words) < 2
          \/ header.words[2] = EmptyString
  THEN Rejected("Invalid Authorization header format.")
  ELSE Resolved(header.words[2])

\* No session was created by the operation.
NoSession == [tokens |-> None]

RequireSessionDefaultRoles(config, time, saved, header) ==
  LET extracted == ExtractAccessToken(header) IN
  IF ~extracted.ok
  THEN [result |-> extracted, session |-> NoSession, saved |-> saved]
  ELSE LET verified == VerifyAccessToken(config, time, extracted.value) IN
       IF ~verified.ok
       THEN [result |-> verified, session |-> NoSession, saved |-> saved]
       ELSE LET claims == verified.value
                session == CreateSession(config, time, saved, claims.sub, DefaultRoles)
            IN [result |-> Resolved([sessionInfo |-> [userId |-> claims.sub,
                                                      sessionId |-> claims.sid,
                                                      roles |-> claims.roles],
                                     refreshedTokens |-> session.tokens]),
                session |-> session,
                saved |-> session.saved]

\* InMemorySessionManager.ts:123-139
RequireSession(config, time, saved, header) ==
  LET extracted == ExtractAccessToken(header) IN
  IF ~extracted.ok
  THEN [result |-> extracted, session |-> NoSession, saved |-> saved]
  ELSE LET verified == VerifyAccessToken(config, time, extracted.value) IN
       IF ~verified.ok
       THEN [result |-> verified, session |-> NoSession, saved |-> saved]
       ELSE LET claims == verified.value
                session == CreateSession(config, time, saved, claims.sub, claims.roles)
            IN [result |-> Resolved([sessionInfo |-> [userId |-> claims.sub,
                                                      sessionId |-> claims.sid,
                                                      roles |-> claims.roles],
                                     refreshedTokens |-> session.tokens]),
                session |-> session,
                saved |-> session.saved]

\* Most tokens the session manager issues in a run (two per session).
MaxTokens == 6
\* Most tokens signed by direct calls of the token service in a run.
MaxSigned == 1

\* Token service configurations: without and with issuer and audience.
TokenConfigs ==
  {[secret |-> "test-secret", issuer |-> i, audience |-> a] :
     i \in {None, Some("iss")}, a \in {None, Some("aud")}}

\* Credentials passed to authenticateUser.
Credentials ==
  {[userId |-> Some("u"), username |-> Some("v")],
   [userId |-> None, username |-> None]}

\* Claim sets passed to the token service directly at a given time: expiring
\* in the second before, in the current second, or in the next.
DirectClaims(time) ==
  {[sub |-> "user", sid |-> "session", roles |-> r, exp |-> (time \div MsPerSecond) + d] :
     r \in {<<"defaultRole">>, <<"admin">>}, d \in {-1, 0, 1}}

\* The tokens the service has signed.
Known == {e.token : e \in issued}

\* A payload segment with the given JSON content.
PayloadOf(json) == Segment([json |-> json])

\* What a client can make of a signed token without the secret: the payload
\* edited under the old signature, another header under the old signature,
\* a signature made with a secret of its own, a part dropped or added.
Forgeries(token) ==
  LET h == token.parts[1]
      p == token.parts[2]
      g == token.parts[3]
      c == DecodeBase64Url(p)
      admin == PayloadOf([c EXCEPT !.roles = <<"admin">>])
  IN {Dotted(<<h, admin, g>>),
      Dotted(<<h, PayloadOf([c EXCEPT !.sub = "attacker"]), g>>),
      Dotted(<<h, PayloadOf([c EXCEPT !.exp = @ + 1]), g>>),
      Dotted(<<EncodeBase64Url([alg |-> Some("none"), typ |-> Some("JWT")]), p, g>>),
      Dotted(<<h, p, Sign("other-secret", h, p)>>),
      Dotted(<<h, admin, Sign("other-secret", h, admin)>>),
      Dotted(<<h, p>>),
      Dotted(<<h, p, g, g>>)}

\* Tokens presented to the service.
Candidates == Known \cup UNION {Forgeries(t) : t \in Known}

\* Tokens presented as bearer credentials: the signed ones, and what can be
\* made of the access tokens.
Presented == Known \cup UNION {Forgeries(e.token) : e \in {e \in issued : e.typ = "access"}}

\* Authorization headers of requests.
Headers ==
  {HeaderAbsent, HeaderArray(<<Text("Bearer"), Text("x")>>),
   HeaderString(<<EmptyString>>), HeaderString(<<Text("not-a-bearer-token")>>),
   HeaderString(<<Text("Bearer")>>), HeaderString(<<Text("Bearer"), EmptyString>>),
   HeaderString(<<Text("Bearer"), EmptyString, Text("x")>>)}
  \cup {HeaderString(<<Text("Bearer"), t>>) : t \in Presented}
  \cup {HeaderString(<<Text("Basic"), t>>) : t \in Known}
  \cup {HeaderString(<<Text("Bearer"), t, Text("x")>>) : t \in Known}

\* The subject, session id and roles a chain of tokens starts from.
RootOf(claims) == [sub |-> claims.sub, sid |-> claims.sid, roles |-> claims.roles]

\* History entries for the token pair of a created session.
SessionEntries(session, root, depth) ==
  {[token |-> session.tokens.accessToken, typ |-> "access",
    claims |-> session.accessClaims, root |-> root, depth |-> depth],
   [token |-> session.tokens.refreshToken, typ |-> "refresh",
    claims |-> session.refreshClaims, root |-> root, depth |-> depth]}

\* The session manager and its token service, constructed; nothing else runs.
InitSessionWith(configs) ==
  /\ MigrationUnused
  /\ LibraryUnused
  /\ InitLock
  /\ current = <<>>
  /\ call = <<>>
  /\ store = [p \in Pairs |-> NoRecord]
  /\ store0 = store
  /\ initCalls = [p \in Pairs |-> 0]
  /\ now = 0
  /\ tokenConfig \in configs
  /\ refreshTokens = {}
  /\ issued = {}
  /\ outcome = NoOutcome

\* Time passes.
Tick ==
  /\ outcome = NoOutcome
  /\ \E t \in Instants : t > now /\ now' = t
  /\ UNCHANGED <<tokenConfig, refreshTokens, issued, outcome, rpcVars, migrationVars, libraryVars>>

\* authenticateUser(credentials) is called.
AuthenticateUserCall ==
  /\ outcome = NoOutcome
  /\ \E credentials \in Credentials :
    LET auth == AuthenticateUser(tokenConfig, now, refreshTokens, credentials)
        entries == SessionEntries(auth.session, RootOf(auth.session.accessClaims), 0)
    IN /\ Cardinality(issued \cup entries) <= MaxTokens
       /\ refreshTokens' = auth.saved
       /\ issued' = issued \cup entries
       /\ outcome' = [op |-> "authenticateUser", typ |-> "", time |-> now,
                      input |-> credentials, result |-> auth.result]
       /\ UNCHANGED <<now, tokenConfig, rpcVars, migrationVars, libraryVars>>

\* Users and roles createSession is called with by the application itself.
SessionRequests == {[userId |-> "w", roles |-> <<"editor", "viewer">>]}

\* createSession(userId, roles) is called.
CreateSessionCall ==
  /\ outcome = NoOutcome
  /\ \E request \in SessionRequests :
       LET session == CreateSession(tokenConfig, now, refreshTokens,
                                    request.userId, request.roles)
           entries == SessionEntries(session, RootOf(session.accessClaims), 0)
       IN /\ Cardinality(issued \cup entries) <= MaxTokens
          /\ refreshTokens' = session.saved
          /\ issued' = issued \cup entries
          /\ outcome' = [op |-> "createSession", typ |-> "", time |-> now,
                         input |-> request, result |-> Resolved(session.tokens)]
          /\ UNCHANGED <<now, tokenConfig, rpcVars, migrationVars, libraryVars>>

\* requireSession(request) is called.
RequireSessionCall ==
  /\ outcome = NoOutcome
  /\ \E header \in Headers :
    LET required == RequireSession(tokenConfig, now, refreshTokens, header)
        entries ==
          IF required.result.ok
          THEN UNION {SessionEntries(required.session, e.root, e.depth + 1) :
                        e \in {e \in issued : e.token = header.words[2]}}
          ELSE {}
    IN /\ Cardinality(issued \cup entries) <= MaxTokens
       /\ refreshTokens' = required.saved
       /\ issued' = issued \cup entries
       /\ outcome' = [op |-> "requireSession", typ |-> "", time |-> now,
                      input |-> header, result |-> required.result]
       /\ UNCHANGED <<now, tokenConfig, rpcVars, migrationVars, libraryVars>>

\* signAccessToken(claims) or signRefreshToken(claims) is called directly.
SignCall ==
  /\ outcome = NoOutcome
  /\ \E typ \in {"access", "refresh"}, claims \in DirectClaims(now) :
    LET signed == SignToken(tokenConfig, claims, typ)
        entry == [token |-> signed.token, typ |-> typ, claims |-> claims,
                  root |-> RootOf(claims), depth |-> 0]
    IN /\ Cardinality(issued \cup {entry}) <= MaxSigned
       /\ issued' = issued \cup {entry}
       /\ outcome' = [op |-> "sign", typ |-> typ, time |-> now,
                      input |-> claims, result |-> Resolved(signed)]
       /\ UNCHANGED <<now, tokenConfig, refreshTokens, rpcVars, migrationVars, libraryVars>>

\* verifyAccessToken(token) or verifyRefreshToken(token) is called directly.
VerifyCall ==
  /\ outcome = NoOutcome
  /\ \E typ \in {"access", "refresh"}, token \in Candidates :
       outcome' = [op |-> "verify", typ |-> typ, time |-> now,
                   input |-> token, result |-> VerifyTyped(tokenConfig, now, token, typ)]
  /\ UNCHANGED <<now, tokenConfig, refreshTokens, issued, rpcVars, migrationVars, libraryVars>>

\* The caller has taken the result of the last operation.
Return ==
  /\ outcome # NoOutcome
  /\ outcome' = NoOutcome
  /\ UNCHANGED <<now, tokenConfig, refreshTokens, issued, rpcVars, migrationVars, libraryVars>>

\* The token service, called directly.
NextToken ==
  \/ Tick
  \/ SignCall
  \/ VerifyCall
  \/ Return

InitToken == InitSessionWith(TokenConfigs)

SpecToken == InitToken /\ [][NextToken]_vars

\* The session manager over the token service.
NextSession ==
  \/ Tick
  \/ AuthenticateUserCall
  \/ CreateSessionCall
  \/ RequireSessionCall
  \/ Return

\* The manager's token service: as in the repository's tests (a secret
\* only), or with issuer and audience set.
InitSession ==
  InitSessionWith({c \in TokenConfigs : c.issuer.defined = c.audience.defined})

SpecSession == InitSession /\ [][NextSession]_vars

\* ------------------------------------- verification of tokens of any origin
\* Services that may have signed a presented token: this one, or one with
\* another secret, issuer or audience.
SignerConfigs ==
  {[secret |-> k, issuer |-> i, audience |-> a] :
     k \in {"test-secret", "other-secret"},
     i \in {None, Some("iss"), Some("other")},
     a \in {None, Some("aud"), Some("other")}}

\* Claims of presented tokens: expiring at the start of second 0, 1 or 2.
PresentedClaims ==
  {[sub |-> "user", sid |-> "session", roles |-> <<"defaultRole">>, exp |-> e] :
     e \in 0..MaxSeconds + 1}

\* Tokens presented for verification: signed tokens, and such tokens with
\* the signature segment dropped or a segment added.
VerifyInputs ==
  LET signed == {SignToken(c, claims, typ).token :
                   c \in SignerConfigs, claims \in PresentedClaims,
                   typ \in {"access", "refresh"}}
  IN signed
       \cup {Dotted(SubSeq(t.parts, 1, 2)) : t \in signed}
       \cup {Dotted(Append(t.parts, t.parts[3])) : t \in signed}

\* A token service, constructed, at some time.
InitVerify ==
  /\ MigrationUnused
  /\ LibraryUnused
  /\ InitLock
  /\ current = <<>>
  /\ call = <<>>
  /\ store = [p \in Pairs |-> NoRecord]
  /\ store0 = store
  /\ initCalls = [p \in Pairs |-> 0]
  /\ now \in Instants
  /\ tokenConfig \in TokenConfigs
  /\ refreshTokens = {}
  /\ issued = {}
  /\ outcome = NoOutcome

\* verifyAccessToken(token) or verifyRefreshToken(token) is called with a
\* token of any origin.
VerifyAny ==
  /\ outcome = NoOutcome
  /\ \E typ \in {"access", "refresh"}, token \in VerifyInputs :
       outcome' = [op |-> "verify", typ |-> typ, time |-> now,
                   input |-> token, result |-> VerifyTyped(tokenConfig, now, token, typ)]
  /\ UNCHANGED <<now, tokenConfig, refreshTokens, issued, rpcVars, migrationVars, libraryVars>>

NextVerify ==
  \/ VerifyAny
  \/ Return

SpecVerify == InitVerify /\ [][NextVerify]_vars

\* ------------------------------- a caller that adopts the refreshed tokens
\* The handler over InMemorySessionManager, serving one caller that makes
\* its calls one after the other (so that the lock is free at each), to the
\* controller "c" and its callable "inc"; hooks and store operations succeed.
\* The store is addressed by the session ids the manager generates.
NoToken == [defined |-> FALSE, token |-> EmptyString]
HeldToken(t) == [defined |-> TRUE, token |-> t]

\* IViewDataStore.load on a store holding records for some pairs.
LoadRecord(records, key) == IF key \in DOMAIN records THEN records[key] ELSE NoRecord
\* IViewDataStore.save
SaveRecord(records, key, data) ==
  [k \in DOMAIN records \cup {key} |-> IF k = key THEN data ELSE records[k]]

\* createViewRpcHandler.ts:295-361 for key "c", method "inc" and this
\* amount, with the bearer token in the Authorization header: the response
\* (status, body.viewData, refreshed-token header), whether the initializer
\* ran, and the stores afterwards.
HandleViewRpc(config, time, saved, records, bearer, amount) ==
  LET required == RequireSession(config, time, saved, HeaderString(<<Text("Bearer"), bearer>>))
      failed(message, savedAfter) ==
        [status |-> ErrorResponse(message).status, viewData |-> Undefined,
         refreshed |-> NoToken, created |-> FALSE, sessionId |-> "",
         session |-> NoSession, saved |-> savedAfter, records |-> records]
  IN IF ~required.result.ok THEN failed(required.result.error, saved)
     ELSE LET sessionInfo == required.result.value.sessionInfo
              entry == Registry("c")
              denied == AssertRoleAccess(entry.roles, FindCallable(entry, "inc").allowedRoles,
                                         RoleList(sessionInfo.roles))
              key == StoreKey(sessionInfo.sessionId, "c")
              record == LoadRecord(records, key)
              hydrated == IF RecordPresent(record) THEN Parse(record) ELSE entry.initial
              afterCreate == IF RecordPresent(record) THEN records
                             ELSE SaveRecord(records, key, Stringify(hydrated))
              viewData == Counter(hydrated.counter + amount)
          IN IF denied # "" THEN failed(denied, required.saved)
             ELSE [status |-> 200, viewData |-> viewData,
                   refreshed |-> HeldToken(required.result.value.refreshedTokens.accessToken),
                   created |-> ~RecordPresent(record),
                   sessionId |-> sessionInfo.sessionId,
                   session |-> required.session, saved |-> required.saved,
                   records |-> SaveRecord(afterCreate, key, Stringify(viewData))]

\* The roles the caller's session is created with: those "c" asks for.
CallerRoles == <<"x">>

\* Manager, handler and store constructed; the caller holds no token.
InitAdopt ==
  /\ MigrationUnused
  /\ LibraryUnused
  /\ InitLock
  /\ current = <<>>
  /\ call = [bearer |-> NoToken, calls |-> 0, viewData |-> Undefined]
  /\ store = <<>>
  /\ store0 = store
  /\ initCalls = <<>>
  /\ now = 0
  /\ tokenConfig = [secret |-> "test-secret", issuer |-> None, audience |-> None]
  /\ refreshTokens = {}
  /\ issued = {}
  /\ outcome = NoOutcome

\* The application creates the caller's session; the caller takes the
\* access token as its bearer credential.
Login ==
  /\ ~call.bearer.defined
  /\ \E session \in {CreateSession(tokenConfig, now, refreshTokens, "w", CallerRoles)} :
       /\ refreshTokens' = session.saved
       /\ issued' = issued \cup SessionEntries(session, RootOf(session.accessClaims), 0)
       /\ call' = [call EXCEPT !.bearer = HeldToken(session.tokens.accessToken)]
  /\ outcome' = NoOutcome
  /\ UNCHANGED <<now, tokenConfig, lockVars, store, store0, initCalls,
                 migrationVars, libraryVars>>

\* The caller makes a call with the token it holds; from a 200 response it
\* adopts the x-access-token header and keeps body.viewData.
InvokeWithBearer ==
  /\ call.bearer.defined
  /\ call.calls < MaxCalls
  /\ \E amount \in Amounts :
     \E response \in {HandleViewRpc(tokenConfig, now, refreshTokens, store,
                                    call.bearer.token, amount)} :
       LET key == StoreKey(response.sessionId, "c")
       IN /\ outcome' = [op |-> "invoke", time |-> now, amount |-> amount,
                         status |-> response.status, viewData |-> response.viewData,
                         created |-> response.created, sessionId |-> response.sessionId]
          /\ refreshTokens' = response.saved
          /\ store' = response.records
          /\ IF response.status = 200
             THEN /\ call' = [bearer |-> response.refreshed, calls |-> call.calls + 1,
                              viewData |-> response.viewData]
                  /\ issued' = issued \cup
                       UNION {SessionEntries(response.session, e.root, e.depth + 1) :
                                e \in {e \in issued : e.token = call.bearer.token}}
                  /\ initCalls' = IF response.created
                                  THEN SaveRecord(initCalls, key, LoadRecord(initCalls, key).counter + 1)
                                  ELSE initCalls
             ELSE UNCHANGED <<call, issued, initCalls>>
  /\ UNCHANGED <<now, tokenConfig, lockVars, store0, migrationVars, libraryVars>>

\* Time passes between the caller's calls.
TickAdopt ==
  /\ \E t \in Instants : t > now /\ now' = t
  /\ UNCHANGED <<tokenConfig, refreshTokens, issued, outcome, rpcVars, migrationVars, libraryVars>>

NextAdopt ==
  \/ Login
  \/ InvokeWithBearer
  \/ TickAdopt

SpecAdopt == InitAdopt /\ [][NextAdopt]_vars

\* ---------------------------------------------------- migration runner
\* Longest migration list given to runMigrationPlan.
MaxPlan == 3
\* Most runs of runMigrationPlan against one database.
MaxRuns == 2

\* Version strings, as the sequences of their decimal digits: "1", "10", "2".
Versions == {<<1>>, <<1, 0>>, <<2>>}

\* The text of a version string.
RECURSIVE VersionText(_)
VersionText(version) ==
  IF version = <<>> THEN "" ELSE ToString(Head(version)) \o VersionText(Tail(version))

\* part_009:19-21  left.localeCompare(right), on strings of digits: the
\* first differing character decides, a proper prefix comes first.
RECURSIVE CompareVersions(_, _)
CompareVersions(left, right) ==
  IF left = <<>> /\ right = <<>> THEN 0
  ELSE IF left = <<>> THEN -1
  ELSE IF right = <<>> THEN 1
  ELSE IF Head(left) < Head(right) THEN -1
  ELSE IF Head(left) > Head(right) THEN 1
  ELSE CompareVersions(Tail(left), Tail(right))

\* errors.ts: the two error classes of the runner, and an error of the adapter.
MigrationValidationError(message) ==
  [name |-> "MigrationValidationError", message |-> message, version |-> <<>>]
MigrationApplyError(version, cause) ==
  [name |-> "MigrationApplyError",
   message |-> "Failed to apply migration " \o VersionText(version) \o ": " \o cause.message,
   version |-> version]
AdapterError == [name |-> "Error", message |-> "adapter failed", version |-> <<>>]

\* No error.
Valid == [name |-> "", message |-> "", version |-> <<>>]

ValidateMigrationOrderingNoOrder(migrations) ==
  LET duplicate(i) == \E j \in 1..(i - 1) : migrations[j].version = migrations[i].version
      bad == {i \in 1..Len(migrations) : duplicate(i)}
  IN IF bad = {} THEN Valid
     ELSE LET i == CHOOSE i \in bad : \A j \in bad : i <= j IN
          MigrationValidationError("Duplicate migration version detected: "
                                     \o VersionText(migrations[i].version))

\* part_009:29-45: the first index at which a check fails decides the error.
ValidateMigrationOrdering(migrations) ==
  LET duplicate(i) == \E j \in 1..(i - 1) : migrations[j].version = migrations[i].version
      disorder(i) ==
        i > 1 /\ CompareVersions(migrations[i - 1].version, migrations[i].version) >= 0
      bad == {i \in 1..Len(migrations) : duplicate(i) \/ disorder(i)}
  IN IF bad = {} THEN Valid
     ELSE LET i == CHOOSE i \in bad : \A j \in bad : i <= j IN
          IF duplicate(i)
          THEN MigrationValidationError("Duplicate migration version detected: "
                                          \o VersionText(migrations[i].version))
          ELSE MigrationValidationError(
                 "Migrations must be provided in strictly ascending version order.")

\* Calls of the adapter's four methods made by a run.
NoCalls == [ensureMetadataTable |-> 0, listAppliedMigrations |-> 0,
            applyMigrationSql |-> 0, recordAppliedMigration |-> 0]

\* A run at its start: nothing read, nothing applied, nothing skipped.
\* `last` remembers how the run before it against the same database ended.
NewRun ==
  [pc |-> "start", index |-> 0, applied |-> {}, appliedVersions |-> <<>>,
   skippedVersions |-> <<>>, calls |-> NoCalls, result |-> NoOutcome,
   last |-> NoOutcome]

\* `options.targetVersion &&`: undefined and "" set no ceiling.
HasCeiling(option) == option.defined /\ option.value # <<>>

\* part_009:96-101: the report of a run that went through the list.
Report(run, migrations, targetVersion) ==
  [run EXCEPT
     !.pc = "done",
     !.result = Resolved([appliedVersions |-> run.appliedVersions,
                          skippedVersions |-> run.skippedVersions,
                          currentVersion |->
                            IF targetVersion.defined THEN targetVersion.value
                            ELSE IF Len(migrations) > 0
                            THEN migrations[Len(migrations)].version
                            ELSE <<0>>])]

\* The run rejects with the error.
Throw(run, error) == [run EXCEPT !.pc = "done", !.result = Rejected(error)]

\* part_009:65-94: the loop from the migration at `index` on, up to its next
\* adapter call: over the ceiling it stops, a recorded version is skipped or
\* fails on its checksum, and for a pending one applyMigrationSql is called.
RECURSIVE RunLoop(_, _, _, _)
RunLoopChecksumIgnored(run, migrations, targetVersion, index) ==
  IF index > Len(migrations) THEN Report(run, migrations, targetVersion)
  ELSE LET migration == migrations[index] IN
       IF HasCeiling(targetVersion)
          /\ CompareVersions(migration.version, targetVersion.value) > 0
       THEN Report(run, migrations, targetVersion)
       ELSE IF \E row \in run.applied : row.version = migration.version
       THEN RunLoop([run EXCEPT !.skippedVersions = Append(@, migration.version)],
                    migrations, targetVersion, index + 1)
       ELSE [run EXCEPT !.pc = "apply", !.index = index,
                        !.calls.applyMigrationSql = @ + 1]

RunLoopSkipUnreported(run, migrations, targetVersion, index) ==
  IF index > Len(migrations) THEN Report(run, migrations, targetVersion)
  ELSE LET migration == migrations[index]
           existing == {row \in run.applied : row.version = migration.version}
       IN IF HasCeiling(targetVersion)
             /\ CompareVersions(migration.version, targetVersion.value) > 0
          THEN Report(run, migrations, targetVersion)
          ELSE IF existing # {}
          THEN IF \E row \in existing : row.checksum # migration.checksum
               THEN Throw(run, MigrationValidationError(
                                 "Checksum mismatch for applied migration "
                                   \o VersionText(migration.version) \o "."))
               ELSE RunLoop(run, migrations, targetVersion, index + 1)
          ELSE [run EXCEPT !.pc = "apply", !.index = index,
                           !.calls.applyMigrationSql = @ + 1]

RunLoop(run, migrations, targetVersion, index) ==
  IF index > Len(migrations) THEN Report(run, migrations, targetVersion)
  ELSE LET migration == migrations[index]
           existing == {row \in run.applied : row.version = migration.version}
       IN IF HasCeiling(targetVersion)
             /\ CompareVersions(migration.version, targetVersion.value) > 0
          THEN Report(run, migrations, targetVersion)
          ELSE IF existing # {}
          THEN IF \E row \in existing : row.checksum # migration.checksum
               THEN Throw(run, MigrationValidationError(
                                 "Checksum mismatch for applied migration "
                                   \o VersionText(migration.version) \o "."))
               ELSE RunLoop([run EXCEPT !.skippedVersions = Append(@, migration.version)],
                            migrations, targetVersion, index + 1)
          ELSE [run EXCEPT !.pc = "apply", !.index = index,
                           !.calls.applyMigrationSql = @ + 1]

\* The rows of the metadata table: (version, checksum), one per version.
Row(version, checksum) == [version |-> version, checksum |-> checksum]
\* The checksum of a migration file, and one that differs from it.
FileChecksum == "checksum"
OtherChecksum == "unexpected"

\* The migration lists given: any list of up to MaxPlan migrations.
Migrations == {Row(v, FileChecksum) : v \in Versions}
Plans == UNION {[1..n -> Migrations] : n \in 0..MaxPlan}
\* The target versions given: none, the empty string, or a version.
Targets == {None, Some(<<>>)} \cup {Some(v) : v \in Versions}
\* The metadata tables a run may find: any recorded versions, the middle one
\* possibly recorded from a file with another checksum.
InitialTables ==
  {rows \in SUBSET ({Row(v, FileChecksum) : v \in Versions}
                      \cup {Row(<<1, 0>>, OtherChecksum)}) :
     \A r1, r2 \in rows : r1.version = r2.version => r1 = r2}

\* Once, twice, many times.
CountExecution(n) == IF n < 2 THEN n + 1 ELSE n

InitMigration ==
  /\ SessionUnused
  /\ LibraryUnused
  /\ InitLock
  /\ current = <<>>
  /\ call = <<>>
  /\ store = [p \in Pairs |-> NoRecord]
  /\ store0 = store
  /\ initCalls = [p \in Pairs |-> 0]
  /\ plan \in Plans
  /\ target \in Targets
  /\ \E rows \in InitialTables :
       db = [applied |-> rows, executed |-> [v \in Versions |-> 0]]
  /\ mig = NoRun
  /\ runs = 0

\* part_009:55-59: runMigrationPlan is called (no other run is in progress):
\* the list is validated, then ensureMetadataTable is called.
StartRun ==
  /\ mig.pc \in {"idle", "done"}
  /\ runs < MaxRuns
  /\ runs' = runs + 1
  /\ LET invalid == ValidateMigrationOrdering(plan)
         run == [NewRun EXCEPT !.last = IF mig.pc = "done" THEN mig.result ELSE NoOutcome]
     IN mig' = IF invalid # Valid
               THEN Throw(run, invalid)
               ELSE [run EXCEPT !.pc = "ensure", !.calls.ensureMetadataTable = @ + 1]
  /\ UNCHANGED <<plan, target, db, rpcVars, sessionVars, libraryVars>>

\* part_009:59-61: ensureMetadataTable settles; listAppliedMigrations is called.
EnsureSettles ==
  /\ mig.pc = "ensure"
  /\ \/ mig' = [mig EXCEPT !.pc = "list", !.calls.listAppliedMigrations = @ + 1]
     \/ mig' = Throw(mig, AdapterError)
  /\ UNCHANGED <<plan, target, db, runs, rpcVars, sessionVars, libraryVars>>

\* part_009:61-94: listAppliedMigrations settles; the loop starts.
ListSettles ==
  /\ mig.pc = "list"
  /\ \/ mig' = RunLoop([mig EXCEPT !.applied = db.applied], plan, target, 1)
     \/ mig' = Throw(mig, AdapterError)
  /\ UNCHANGED <<plan, target, db, runs, rpcVars, sessionVars, libraryVars>>

ApplySettlesUnwrapped ==
  /\ mig.pc = "apply"
  /\ \/ /\ db' = [db EXCEPT !.executed[plan[mig.index].version] = CountExecution(@)]
        /\ mig' = [mig EXCEPT !.pc = "record", !.calls.recordAppliedMigration = @ + 1]
     \/ /\ mig' = Throw(mig, AdapterError)
        /\ UNCHANGED db
  /\ UNCHANGED <<plan, target, runs, rpcVars, sessionVars, libraryVars>>

\* part_009:86-91: applyMigrationSql settles: the SQL was executed and
\* recordAppliedMigration is called, or it threw and nothing was executed.
ApplySettles ==
  /\ mig.pc = "apply"
  /\ LET migration == plan[mig.index] IN
     \/ /\ db' = [db EXCEPT !.executed[migration.version] = CountExecution(@)]
        /\ mig' = [mig EXCEPT !.pc = "record", !.calls.recordAppliedMigration = @ + 1]
     \/ /\ mig' = Throw(mig, MigrationApplyError(migration.version, AdapterError))
        /\ UNCHANGED db
  /\ UNCHANGED <<plan, target, runs, rpcVars, sessionVars, libraryVars>>

RecordSettlesNoRow ==
  /\ mig.pc = "record"
  /\ mig' = RunLoop([mig EXCEPT !.appliedVersions = Append(@, plan[mig.index].version)],
                    plan, target, mig.index + 1)
  /\ UNCHANGED <<plan, target, db, runs, rpcVars, sessionVars, libraryVars>>

\* part_009:88-94: recordAppliedMigration settles: the row is written and
\* the loop goes on, or it threw and no row was written.
RecordSettles ==
  /\ mig.pc = "record"
  /\ LET migration == plan[mig.index] IN
     \/ /\ db' = [db EXCEPT !.applied =
                    {row \in @ : row.version # migration.version}
                      \cup {Row(migration.version, migration.checksum)}]
        /\ mig' = RunLoop([mig EXCEPT !.appliedVersions = Append(@, migration.version)],
                          plan, target, mig.index + 1)
     \/ /\ mig' = Throw(mig, MigrationApplyError(migration.version, AdapterError))
        /\ UNCHANGED db
  /\ UNCHANGED <<plan, target, runs, rpcVars, sessionVars, libraryVars>>

NextMigration ==
  \/ StartRun
  \/ EnsureSettles
  \/ ListSettles
  \/ ApplySettles
  \/ RecordSettles

SpecMigration == InitMigration /\ [][NextMigration]_vars

\* ------------------------------------------------------- client runtime
\* Most invokeMethod calls made on one client controller.
MaxInvocations == 3

\* The server's side is not part of this specification.
ServerUnused ==
  /\ SessionUnused
  /\ MigrationUnused
  /\ InitLock
  /\ current = <<>>
  /\ call = <<>>
  /\ store = [p \in Pairs |-> NoRecord]
  /\ store0 = store
  /\ initCalls = [p \in Pairs |-> 0]

\* part_008:190-214  ClientRpcError, thrown for a response outside 2xx.
ClientRpcError(status) == [name |-> "ClientRpcError", status |-> status]
\* An error thrown by the transport or by a runtime callback.
RuntimeError == [name |-> "Error", status |-> 0]

\* The state of the promise `run` of the k-th call.
RunState(calls, k) ==
  IF calls[k].pc # "settled" THEN "pending"
  ELSE IF calls[k].result.ok THEN "fulfilled" ELSE "rejected"

QueueAfterNotWaiting(run) == "fulfilled"

\* part_008:266-269  queue = run.then(() => undefined, () => undefined):
\* pending while run is, then fulfilled however run settled.
QueueAfter(run) == IF run = "pending" THEN "pending" ELSE "fulfilled"

\* part_008:260,265  the promise `queue` that the k-th call chains on.
QueueBefore(calls, k) ==
  IF k = 1 THEN "fulfilled" ELSE QueueAfter(RunState(calls, k - 1))

\* part_008:265  queue.then(operation, operation): the operation runs once
\* the queue has settled, either way.
OperationRuns(queue) == queue \in {"fulfilled", "rejected"}

\* The statuses a response may carry, around the bounds of 2xx.
Statuses == {199, 200, 299, 300, 403}

\* part_008:335-339  the end of the operation, by the response's status.
Conclude(status) ==
  IF status < 200 \/ status >= 300
  THEN Rejected(ClientRpcError(status))
  ELSE Resolved(status)

InitClient ==
  /\ ServerUnused
  /\ invocations = <<>>
  /\ controllerRegistry = {}
  /\ registrations = <<>>

\* part_008:305-309  invokeMethod is called: the operation is enqueued.
InvokeMethod ==
  /\ Len(invocations) < MaxInvocations
  /\ invocations' = Append(invocations,
                           [pc |-> "queued", authorization |-> FALSE,
                            status |-> 0, result |-> NoOutcome])
  /\ UNCHANGED <<controllerRegistry, registrations, rpcVars, sessionVars, migrationVars>>

\* part_008:310-316  the operation starts and awaits getAccessToken.
BeginOperation(k) ==
  /\ invocations[k].pc = "queued"
  /\ OperationRuns(QueueBefore(invocations, k))
  /\ invocations' = [invocations EXCEPT ![k].pc = "token"]
  /\ UNCHANGED <<controllerRegistry, registrations, rpcVars, sessionVars, migrationVars>>

\* part_008:316-329  getAccessToken settles: with a token or without one
\* transport.send is called, and if it threw the call is rejected.
TokenSettles(k) ==
  /\ invocations[k].pc = "token"
  /\ \/ \E token \in BOOLEAN :
          invocations' = [invocations EXCEPT ![k].pc = "sending",
                                             ![k].authorization = token]
     \/ invocations' = [invocations EXCEPT ![k].pc = "settled",
                                           ![k].result = Rejected(RuntimeError)]
  /\ UNCHANGED <<controllerRegistry, registrations, rpcVars, sessionVars, migrationVars>>

\* part_008:320-339  transport.send settles: with a response, after which
\* onTokensRefreshed is awaited when the response carries tokens and the
\* runtime has the callback; or with an error, which rejects the call.
SendSettles(k) ==
  /\ invocations[k].pc = "sending"
  /\ \/ \E status \in Statuses, refreshed \in BOOLEAN :
          invocations' =
            IF refreshed
            THEN [invocations EXCEPT ![k].pc = "refreshing", ![k].status = status]
            ELSE [invocations EXCEPT ![k].pc = "settled", ![k].status = status,
                                     ![k].result = Conclude(status)]
     \/ invocations' = [invocations EXCEPT ![k].pc = "settled",
                                           ![k].result = Rejected(RuntimeError)]
  /\ UNCHANGED <<controllerRegistry, registrations, rpcVars, sessionVars, migrationVars>>

\* part_008:331-339  onTokensRefreshed settles.
RefreshSettles(k) ==
  /\ invocations[k].pc = "refreshing"
  /\ \/ invocations' = [invocations EXCEPT ![k].pc = "settled",
                                           ![k].result = Conclude(invocations[k].status)]
     \/ invocations' = [invocations EXCEPT ![k].pc = "settled",
                                           ![k].result = Rejected(RuntimeError)]
  /\ UNCHANGED <<controllerRegistry, registrations, rpcVars, sessionVars, migrationVars>>

NextClient ==
  \/ InvokeMethod
  \/ \E k \in 1..Len(invocations) : BeginOperation(k)
  \/ \E k \in 1..Len(invocations) : TokenSettles(k)
  \/ \E k \in 1..Len(invocations) : SendSettles(k)
  \/ \E k \in 1..Len(invocations) : RefreshSettles(k)

SpecClient == InitClient /\ [][NextClient]_vars

\* ------------------------------------------------- controller registry
\* Most registerViewController calls made.
MaxRegistrations == 3

\* The keys controllers are registered under, and the controller classes.
RegistryKeys == {"a", "b", "c"}
ControllerClasses == {"A", "B"}

\* registry.ts:77  controllerRegistry.get(key): the entry, or undefined.
ResolveViewController(registry, key) ==
  IF \E entry \in registry : entry.key = key
  THEN CHOOSE entry \in registry : entry.key = key
  ELSE NotRegistered

RegisterViewControllerOverwrites(registry, key, controller) ==
  [threw |-> FALSE,
   registry |-> {entry \in registry : entry.key # key}
                  \cup {[registered |-> TRUE, key |-> key, controller |-> controller]}]

\* registry.ts:56-66  registerViewController: throws when the key is taken,
\* else sets the entry.
RegisterViewController(registry, key, controller) ==
  IF \E entry \in registry : entry.key = key
  THEN [threw |-> TRUE, registry |-> registry]
  ELSE [threw |-> FALSE,
        registry |-> registry
                       \cup {[registered |-> TRUE, key |-> key, controller |-> controller]}]

InitRegistry ==
  /\ ServerUnused
  /\ invocations = <<>>
  /\ controllerRegistry = {}
  /\ registrations = <<>>

\* A module calls registerViewController.
Register ==
  /\ Len(registrations) < MaxRegistrations
  /\ \E key \in RegistryKeys, controller \in ControllerClasses :
       LET done == RegisterViewController(controllerRegistry, key, controller) IN
       /\ controllerRegistry' = done.registry
       /\ registrations' = Append(registrations,
                                  [key |-> key, controller |-> controller,
                                   threw |-> done.threw])
  /\ UNCHANGED <<invocations, rpcVars, sessionVars, migrationVars>>

NextRegistry == Register

SpecRegistry == InitRegistry /\ [][NextRegistry]_vars

\* ------------------------------------------------------- derived notions
Range(seq) == {seq[i] : i \in 1..Len(seq)}
Pos(seq, x) == CHOOSE i \in 1..Len(seq) : seq[i] = x
Before(seq, x, y) == x \in Range(seq) /\ y \in Range(seq) /\ Pos(seq, x) < Pos(seq, y)

KeyOf(c) == LockKey(call[c].sessionId, call[c].viewKey)
SameKey(c, d) == KeyOf(c) = KeyOf(d)
Acquired(c) == current[c] # NoEntry
Granted(c) == Acquired(c) /\ c \in Range(grants[KeyOf(c)])
\* c and d called acquire() for one lock key, c first.
ArrivedBefore(c, d) == Acquired(c) /\ Acquired(d) /\ SameKey(c, d) /\ Before(arrivals[KeyOf(c)], c, d)
\* c and d were granted the lock of one lock key, c first.
GrantedBefore(c, d) == Granted(c) /\ Granted(d) /\ SameKey(c, d) /\ Before(grants[KeyOf(c)], c, d)
\* A holder: from the moment acquire() resolved until release is called.
Holder(c) == Granted(c) /\ c \notin nextResolved
SamePair(c, d) ==
  call[c].sessionId = call[d].sessionId /\ call[c].viewKey = call[d].viewKey

\* Promise p is fulfilled, or will be by promise jobs alone (no further
\* release call is needed).
RECURSIVE WillFulfil(_)
WillFulfil(p) ==
  CASE p.kind = "resolved" -> TRUE
    [] p.kind = "next" -> p.of \in nextResolved
    [] p.kind = "chain" ->
         p.of \in chainSettled \/ (p.of \in nextResolved /\ WillFulfil(current[p.of]))
    [] OTHER -> FALSE

\* ------------------------------------------------------------------ claims

\* C3: FIFO grant order.  For one (sessionId, viewKey), a caller whose
\* acquire() was invoked earlier is granted earlier: whenever a later caller
\* has been granted, every earlier caller of that pair was granted before it.
C3_FifoGrantOrder ==
  \A c, d \in Callers :
    (c # d /\ SamePair(c, d) /\ ArrivedBefore(c, d) /\ Granted(d))
      => GrantedBefore(c, d)

\* Three callers of one pair were all granted; one of them had to queue behind
\* a holder and another arrived after a release had drained the chain.
C3_Witness ==
  \E c, d, e \in Callers :
    /\ c # d /\ d # e /\ c # e
    /\ Granted(c) /\ Granted(d) /\ Granted(e)
    /\ SamePair(c, d) /\ SamePair(d, e)
    /\ ArrivedBefore(c, d) /\ ArrivedBefore(d, e)
    /\ call[d].queued /\ ~call[e].queued

\* C4 (as claimed): acquisitions for different pairs never block each other.
\* A waiting caller all of whose predecessors on the same (sessionId, viewKey)
\* pair have released is granted without any further release.
C4_IndependentPairs ==
  \A c \in Callers :
    (call[c].pc = "waiting"
       /\ \A d \in Callers :
            (d # c /\ ArrivedBefore(d, c) /\ SamePair(c, d)) => d \in nextResolved)
      => WillFulfil(current[c])

\* C5: eventual grant.  Provided every granted caller eventually calls its
\* release function, every acquire() is eventually granted; and at no time,
\* also after repeated calls of a release function, are two callers of one
\* lock key holders at once.
C5_EventualGrant ==
  /\ [](\A c, d \in Callers : (c # d /\ Holder(c) /\ Holder(d)) => KeyOf(c) # KeyOf(d))
  /\ \A c \in Callers : (call[c].pc = "waiting") ~> Granted(c)

\* A caller called its release function twice, and a caller that queued
\* behind it on the same key has been granted since.
C5_Witness ==
  \E c, d \in Callers :
    /\ c # d /\ KeyOf(c) = KeyOf(d)
    /\ call[c].releases = 2
    /\ ArrivedBefore(c, d) /\ call[d].queued /\ Granted(d)

\* ------------------------------------------------- notions for the pipeline
\* Request r runs for pair p (it authenticated as p[1] on view p[2]).
OnPair(r, p) == call[r].sessionId = p[1] /\ call[r].viewKey = p[2]
PairOf(r) == <<call[r].sessionId, call[r].viewKey>>

RECURSIVE SumAmounts(_)
SumAmounts(S) ==
  IF S = {} THEN 0
  ELSE LET r == CHOOSE x \in S : TRUE IN call[r].amount + SumAmounts(S \ {r})

\* The counter the initializer or the pre-existing record gives pair p.
InitialCounter(p) ==
  IF store0[p] = NoRecord THEN Registry(p[2]).initial.counter ELSE store0[p].counter

\* The steps of a request between hydration and the final save.
HydratedSteps == {"beforeCall", "method"}
\* The steps of a request inside the inner try block.
TrySteps == {"authorize", "load", "create", "saveInit", "beforeCall", "method",
             "persist", "respond"}

\* C1: no lost updates.  For every pair, the stored counter is the initial
\* counter plus the amounts of all calls on that pair whose final save was
\* done; so when N calls adding k each have all returned 200, it is N*k above
\* the initial value, whatever the interleaving.
C1_NoLostUpdates ==
  \A p \in Pairs :
    store[p] # NoRecord =>
      store[p] = JsonObject(InitialCounter(p)
                            + SumAmounts({r \in Requests : OnPair(r, p) /\ call[r].persisted}))

\* Two calls on one pair were in flight together (the later one queued behind
\* the earlier one's lock) and both returned 200.
C1_Witness ==
  \E r, q \in Requests :
    /\ r # q /\ SamePair(r, q)
    /\ call[r].status = 200 /\ call[q].status = 200
    /\ call[q].queued
    /\ store[PairOf(r)] = JsonObject(call[r].amount + call[q].amount)

\* C2: mutual exclusion.  At most one request is a holder of a pair's lock,
\* and every request that is at a store load or save, at a hook or at the
\* method is the holder of its pair's lock.
C2_MutualExclusion ==
  /\ \A r, q \in Requests : (r # q /\ Holder(r) /\ Holder(q)) => ~SamePair(r, q)
  /\ \A r \in Requests : call[r].pc \in TrySteps => Holder(r)

\* One request is at its final save while another request for the same pair
\* has called acquire() and waits.
C2_Witness ==
  \E r, q \in Requests :
    /\ r # q /\ SamePair(r, q)
    /\ call[r].pc = "persist" /\ Holder(r)
    /\ call[q].pc = "lockWait" /\ ~Holder(q)

\* C6: the handler always releases.  A request that was granted the lock and
\* has ended, in 200 or in any failure, called release exactly once; release
\* is never called before the end; and a request waiting for a pair all of
\* whose earlier requests have ended is granted without any further release.
C6_AlwaysReleases ==
  /\ \A r \in Requests :
       /\ (call[r].pc = "done" /\ Granted(r)) => (call[r].releases = 1 /\ r \in nextResolved)
       /\ call[r].pc # "done" => (call[r].releases = 0 /\ r \notin nextResolved)
       /\ call[r].releases <= 1
  /\ \A r \in Requests :
       (call[r].pc = "lockWait"
          /\ \A q \in Requests : (q # r /\ ArrivedBefore(q, r)) => call[q].pc = "done")
         => WillFulfil(current[r])

\* A request failed inside the try block (a hook, the initializer, the method
\* or the store threw), and a later request for the same pair, which queued
\* behind it, has been granted.
C6_Witness ==
  \E r, q \in Requests :
    /\ r # q /\ SamePair(r, q)
    /\ call[r].pc = "done" /\ call[r].status # 200
    /\ call[r].failedAt \in {"authorize", "load", "create", "saveInit", "beforeCall",
                              "method", "persist"}
    /\ ArrivedBefore(r, q) /\ call[q].queued /\ Granted(q)

\* Requests on pair p whose initializer call or whose save of the created
\* state failed.
InitFailures(p) ==
  {r \in Requests : OnPair(r, p) /\ call[r].failedAt \in {"create", "saveInit"}}

C8_SessionIsolation ==
  /\ [][\A p \in Pairs :
          store'[p] # store[p] =>
            \E r \in Requests : call'[r] # call[r] /\ OnPair(r, p)]_vars
  /\ [](\A r \in Requests :
          call[r].created =>
            /\ call[r].pc \in HydratedSteps =>
                 call[r].viewData = Registry(call[r].viewKey).initial
            /\ call[r].status = 200 =>
                 call[r].bodyViewData =
                   Counter(Registry(call[r].viewKey).initial.counter + call[r].amount))

\* Two sessions each made a first call on the same view, with different
\* amounts; each got its own amount back and each record holds its own amount.
C8_Witness ==
  \E r, q \in Requests :
    /\ call[r].sessionId # call[q].sessionId /\ call[r].viewKey = call[q].viewKey
    /\ call[r].status = 200 /\ call[q].status = 200
    /\ call[r].amount # call[q].amount
    /\ store[PairOf(r)] = JsonObject(call[r].amount)
    /\ store[PairOf(q)] = JsonObject(call[q].amount)
    /\ call[q].bodyViewData = Counter(call[q].amount)

\* The role names of a constraint or of a session (none when undefined).
RoleSet(roles) == IF roles.defined THEN Range(roles.list) ELSE {}
\* A constraint that is non-empty and shares no role with the session's roles.
Excludes(constraint, sessionRoles) ==
  RoleSet(constraint) # {} /\ RoleSet(constraint) \cap RoleSet(sessionRoles) = {}

\* C9: role authorization rule.  The request is rejected as forbidden (403
\* with error "Forbidden.", or "Forbidden." forwarded to next) exactly when
\* the controller's roles or the callable's allowedRoles is a non-empty list
\* that shares no role with the session's roles; otherwise it proceeds.
C9_RoleRule ==
  \A r \in DOMAIN call :
    ("controllerRoles" \in DOMAIN call[r] /\ call[r].pc # "auth") =>
      LET forbidden == \/ Excludes(call[r].controllerRoles, call[r].sessionRoles)
                       \/ Excludes(call[r].allowedRoles, call[r].sessionRoles)
      IN /\ forbidden <=> call[r].pc = "done"
         /\ ~forbidden <=> call[r].pc = "lockWait"
         /\ (call[r].pc = "done" /\ call[r].forwarded = "") =>
              (call[r].status = 403 /\ call[r].error = "Forbidden.")
         /\ (call[r].pc = "done" /\ call[r].forwarded # "") =>
              (call[r].status = 0 /\ call[r].forwarded = "Forbidden.")

\* A session passes the controller's constraint, fails the callable's, and is
\* answered 403 "Forbidden.".
C9_Witness ==
  \E r \in DOMAIN call :
    /\ "controllerRoles" \in DOMAIN call[r]
    /\ call[r].controllerRoles = RoleList(<<"x", "y">>)
    /\ call[r].sessionRoles = RoleList(<<"x">>)
    /\ call[r].allowedRoles = RoleList(<<"y">>)
    /\ call[r].status = 403 /\ call[r].error = "Forbidden."

\* C10: status mapping without a next callback.  A request that ended
\* without forwarding an error has: 400 for a missing route key or method;
\* 404 for an unknown controller or callable; 403 "Forbidden." for a role
\* mismatch; 500 with the initializer-missing message for a controller
\* without createViewData and no record; 500 with the generic message for
\* every authentication failure; and 200 only if nothing threw, the method
\* ran and the final save was done.
C10_StatusMapping ==
  \A r \in Requests :
    (call[r].pc = "done" /\ call[r].forwarded = "") =>
      /\ call[r].failedAt \in {"route", "body"} => call[r].status = 400
      /\ call[r].failedAt \in {"controller", "callable"} => call[r].status = 404
      /\ call[r].failedAt = "role" => (call[r].status = 403 /\ call[r].error = "Forbidden.")
      /\ call[r].failedAt = "initializer" =>
           (call[r].status = 500 /\ call[r].error = "ViewData initializer missing.")
      /\ call[r].failedAt = "auth" =>
           (call[r].status = 500 /\ call[r].error = GenericMessage)
      /\ call[r].status = 200 =>
           (call[r].failedAt = "" /\ call[r].amount \in Amounts /\ call[r].persisted
              /\ store[PairOf(r)] # NoRecord)
      /\ call[r].failedAt = "" => call[r].status = 200

\* One request was rejected by authentication and answered 500 with the
\* generic message; another ran its method, saved, and was answered 200.
C10_Witness ==
  \E r, q \in Requests :
    /\ call[r].pc = "done" /\ call[r].failedAt = "auth" /\ call[r].forwarded = ""
    /\ call[r].status = 500 /\ call[r].error = GenericMessage
    /\ call[q].status = 200 /\ call[q].persisted

\* The messages of the errors that can be thrown at a step of the pipeline.
ThrownAt(site) ==
  CASE site = "body" -> {"Missing method in request body."}
    [] site = "controller" -> {"ViewController not found."}
    [] site = "callable" -> {"Callable method not found."}
    [] site = "auth" -> AuthFailures
    [] site = "role" -> {"Forbidden."}
    [] site = "initializer" -> {"ViewData initializer missing."}
    [] site \in {"authorize", "create", "beforeCall"} -> ControllerErrors
    [] site = "method" -> ControllerErrors \cup {TypeErrorMessage}
    [] site \in {"load", "saveInit", "persist"} -> {StoreError}
    [] OTHER -> {}

\* The steps at which controller code runs.
ControllerSteps == {"authorize", "create", "beforeCall", "method"}

\* C11 (as claimed): error forwarding.  When a next callback was supplied,
\* every failure of the pipeline, a missing route key included, is forwarded
\* to next exactly once and the handler writes no status and no body.
C11_ForwardsEveryFailure ==
  \A r \in Requests :
    (call[r].pc = "done" /\ call[r].next = "supplied" /\ call[r].failedAt # "") =>
      /\ call[r].nextCalls = 1
      /\ call[r].forwarded \in ThrownAt(call[r].failedAt)
      /\ call[r].status = 0 /\ call[r].error = ""

\* C11 (amended): when a next callback was supplied, every failure other
\* than a missing route key is forwarded to next as the thrown error, exactly
\* once, and the handler writes no status and no body; a missing route key is
\* answered 400 by the handler itself and next is not called.  Without a next
\* callback nothing is forwarded.
C11_ForwardsThrownErrors ==
  \A r \in Requests :
    /\ (call[r].pc = "done" /\ call[r].next = "supplied"
          /\ call[r].failedAt \notin {"", "route"}) =>
         /\ call[r].nextCalls = 1
         /\ call[r].forwarded \in ThrownAt(call[r].failedAt)
         /\ call[r].status = 0 /\ call[r].error = ""
    /\ (call[r].pc = "done" /\ call[r].failedAt = "route") =>
         /\ call[r].nextCalls = 0 /\ call[r].forwarded = ""
         /\ call[r].status = 400 /\ call[r].error = "Missing view controller key."
    /\ call[r].next # "supplied" => (call[r].nextCalls = 0 /\ call[r].forwarded = "")

\* With next supplied: one request failed authentication before the lock and
\* another failed in its method while holding the lock; both were forwarded,
\* neither was answered by the handler.
C11_Witness ==
  \E r, q \in Requests :
    /\ call[r].pc = "done" /\ call[r].failedAt = "auth"
    /\ call[r].next = "supplied" /\ call[r].forwarded \in AuthFailures
    /\ call[r].status = 0
    /\ call[q].pc = "done" /\ call[q].failedAt = "method"
    /\ call[q].next = "supplied" /\ call[q].forwarded = "boom"
    /\ call[q].nextCalls = 1 /\ call[q].status = 0 /\ call[q].releases = 1

\* C12 (as claimed): unexpected errors stay generic.  Without a next
\* callback, an error thrown by controller code (authorize, createViewData,
\* onBeforeCall or the method) is answered 500 with the generic message,
\* whatever the thrown message.
C12_ControllerErrorsGeneric ==
  \A r \in Requests :
    (call[r].pc = "done" /\ call[r].next = "absent"
       /\ call[r].failedAt \in ControllerSteps) =>
      (call[r].status = 500 /\ call[r].error = GenericMessage)

\* The claims a token's payload segment carries.
PayloadClaims(token) == DecodeBase64Url(SplitDots(token)[2])
\* The header and payload segments the service has signed.
SignedParts == {<<SplitDots(e.token)[1], SplitDots(e.token)[2]>> : e \in issued}
\* A signature segment that is a digest under another secret than the service's.
ForeignSignature(segment) ==
  "hmac" \in DOMAIN segment.text /\ segment.text.hmac # tokenConfig.secret
\* A three-segment token whose header or payload is not what the service
\* signed, or whose signature was made with another secret.
TamperedAmong(signed, token) ==
  LET parts == SplitDots(token) IN
  /\ Len(parts) = 3
  /\ \/ <<parts[1], parts[2]>> \notin signed
     \/ ForeignSignature(parts[3])
Tampered(token) == TamperedAmong(SignedParts, token)
\* The header "Bearer <token>".
Bearer(token) == HeaderString(<<Text("Bearer"), token>>)
\* The subjects and role lists sessions are created for.
LegitimateSubjects == {ResolveUserId(c) : c \in Credentials} \cup {r.userId : r \in SessionRequests}
LegitimateRoles == {DefaultRoles} \cup {r.roles : r \in SessionRequests}

\* C13: token round trip.  Verifying, with the verifier of its kind, a token
\* the service signed from a claim set whose exp is still in the future
\* returns exactly that claim set, whatever issuer and audience are configured.
C13_TokenRoundTrip ==
  outcome.op = "verify" =>
    \A e \in issued :
      (e.token = outcome.input /\ e.typ = outcome.typ
         /\ e.claims.exp * MsPerSecond > outcome.time)
        => outcome.result = Resolved(e.claims)

\* With an issuer but no audience configured, a refresh token signed for the
\* roles <<"admin">> is verified in the last millisecond before its expiry
\* and its claims come back.
C13_Witness ==
  /\ outcome.op = "verify" /\ outcome.typ = "refresh" /\ outcome.result.ok
  /\ tokenConfig.issuer = Some("iss") /\ tokenConfig.audience = None
  /\ outcome.result.value.roles = <<"admin">>
  /\ outcome.time = outcome.result.value.exp * MsPerSecond - 1

\* C14: token integrity.  A three-segment token whose header or payload is
\* not what the service signed, or whose signature was made with another
\* secret, is rejected with "Invalid token signature." by verifyAccessToken
\* (called at any moment between two operations of the manager) and by
\* requireSession; and every token ever issued carries a subject and roles a
\* session was legitimately created for, never the forged ones.
C14_TokenIntegrity ==
  /\ outcome = NoOutcome =>
       LET signed == SignedParts IN
       \A e \in issued :
         \A t \in Forgeries(e.token) :
           TamperedAmong(signed, t) =>
             VerifyAccessToken(tokenConfig, now, t) = Rejected("Invalid token signature.")
  /\ outcome.op = "requireSession" =>
       LET extracted == ExtractAccessToken(outcome.input) IN
       (extracted.ok /\ Tampered(extracted.value)) =>
         outcome.result = Rejected("Invalid token signature.")
  /\ \A e \in issued :
       e.claims.sub \in LegitimateSubjects /\ e.claims.roles \in LegitimateRoles

\* requireSession was called with an unexpired access token of the service
\* whose roles were edited to <<"admin">> under the old signature, and
\* rejected it for its signature.
C14_Witness ==
  /\ outcome.op = "requireSession"
  /\ outcome.result = Rejected("Invalid token signature.")
  /\ \E e \in issued :
       /\ e.typ = "access" /\ e.claims.exp * MsPerSecond > outcome.time
       /\ outcome.input =
            Bearer(Dotted(<<SplitDots(e.token)[1],
                            PayloadOf([PayloadClaims(e.token) EXCEPT !.roles = <<"admin">>]),
                            SplitDots(e.token)[3]>>))

\* C15 (as claimed): expiry boundary.  A token the service signed is accepted
\* by the verifier of its kind only if its exp, in seconds, is strictly
\* greater than the current time; with exp equal to or earlier than the
\* current time it is rejected with "Token expired.".
C15_ExpiryBoundary ==
  outcome.op = "verify" =>
    \A e \in issued :
      (e.token = outcome.input /\ e.typ = outcome.typ) =>
        IF e.claims.exp * MsPerSecond > outcome.time
        THEN outcome.result.ok
        ELSE outcome.result = Rejected("Token expired.")

\* C16 (as claimed): token kinds are not interchangeable.  Whatever its
\* claim set, a token signed as one kind is rejected by the verifier of the
\* other kind with "Invalid token type.".
C16_WrongKindMessage ==
  outcome.op = "verify" =>
    \A e \in issued :
      (e.token = outcome.input /\ e.typ # outcome.typ) =>
        outcome.result = Rejected("Invalid token type.")

\* C16 (amended): a token signed as one kind is never accepted by the
\* verifier of the other kind: it is rejected with "Invalid token type." when
\* its exp has not passed and with "Token expired." when it has; and
\* requireSession never accepts a refresh token as a bearer credential.
C16_KindsNotInterchangeable ==
  /\ outcome.op = "verify" =>
       \A e \in issued :
         (e.token = outcome.input /\ e.typ # outcome.typ) =>
           outcome.result =
             IF e.claims.exp * MsPerSecond < outcome.time
             THEN Rejected("Token expired.")
             ELSE Rejected("Invalid token type.")
  /\ \A e \in issued :
       e.typ = "refresh" =>
         ~RequireSession(tokenConfig, now, refreshTokens, Bearer(e.token)).result.ok

\* An unexpired access token was given to verifyRefreshToken and rejected for
\* its type, while verifyAccessToken accepts it.
C16_Witness ==
  /\ outcome.op = "verify" /\ outcome.typ = "refresh"
  /\ outcome.result = Rejected("Invalid token type.")
  /\ \E e \in issued : e.token = outcome.input /\ e.typ = "access"
  /\ VerifyAccessToken(tokenConfig, outcome.time, outcome.input).ok

\* C17: credential extraction failures.  requireSession fails with "Missing
\* Authorization header." when the header is absent, empty or an array, and
\* with "Invalid Authorization header format." when its scheme is not Bearer
\* or no token follows the scheme; and whenever requireSession fails, for
\* these or for a verification failure, no token is issued and the
\* refresh-token store is unchanged.
C17_ExtractionFailures ==
  /\ [](outcome.op = "requireSession" =>
          LET header == outcome.input IN
          IF header.kind # "string" \/ header.words = <<EmptyString>>
          THEN outcome.result = Rejected("Missing Authorization header.")
          ELSE (header.words[1] # Text("Bearer") \/ Len(header.words) < 2
                  \/ header.words[2] = EmptyString)
                 => outcome.result = Rejected("Invalid Authorization header format."))
  /\ [][(outcome'.op = "requireSession" /\ ~outcome'.result.ok)
          => (refreshTokens' = refreshTokens /\ issued' = issued)]_vars

\* With sessions in the refresh-token store, a request whose header is an
\* array was refused as missing its header.
C17_Witness ==
  /\ outcome.op = "requireSession" /\ outcome.input.kind = "array"
  /\ outcome.result = Rejected("Missing Authorization header.")
  /\ Cardinality(refreshTokens) = 2

\* The result of requireSession for the header "Bearer <token>" now.
Required(token) == RequireSession(tokenConfig, now, refreshTokens, Bearer(token)).result

\* C18: rolling refresh keeps subject and roles.  requireSession succeeds for
\* every unexpired access token of the service; a successful requireSession
\* returns a new access token and a new refresh token, each verifiable as its
\* kind, whose claims carry the subject and the roles of the verified token,
\* and a sessionInfo with the verified token's sub, sid and roles; and every
\* token carries the subject and roles of the first token of its chain.
C18_RefreshKeepsSubjectAndRoles ==
  /\ \A e \in issued :
       (e.typ = "access" /\ e.claims.exp * MsPerSecond > now) => Required(e.token).ok
  /\ (outcome.op = "requireSession" /\ outcome.result.ok) =>
       LET verified == PayloadClaims(outcome.input.words[2])
           tokens == outcome.result.value.refreshedTokens
           access == VerifyAccessToken(tokenConfig, outcome.time, tokens.accessToken)
           refresh == VerifyRefreshToken(tokenConfig, outcome.time, tokens.refreshToken)
       IN /\ access.ok /\ refresh.ok
          /\ access.value.sub = verified.sub /\ access.value.roles = verified.roles
          /\ refresh.value.sub = verified.sub /\ refresh.value.roles = verified.roles
          /\ outcome.result.value.sessionInfo =
               [userId |-> verified.sub, sessionId |-> verified.sid, roles |-> verified.roles]
  /\ \A e \in issued : e.claims.sub = e.root.sub /\ e.claims.roles = e.root.roles

\* A session created for the roles <<"editor", "viewer">> was refreshed, and
\* the refreshed access token was used to refresh again.
C18_Witness ==
  /\ outcome.op = "requireSession" /\ outcome.result.ok
  /\ outcome.result.value.sessionInfo.roles = <<"editor", "viewer">>
  /\ \E e \in issued :
       /\ e.token = outcome.input.words[2] /\ e.depth = 1
       /\ \E f \in issued :
            f.token = outcome.result.value.refreshedTokens.accessToken /\ f.depth = 2

\* C19 (as claimed): rolling refresh keeps the session.  The access token
\* issued by requireSession carries the session id of the access token it
\* verified, and so does every token of a chain of refreshes.
C19_RefreshKeepsSession ==
  /\ (outcome.op = "requireSession" /\ outcome.result.ok) =>
       PayloadClaims(outcome.result.value.refreshedTokens.accessToken).sid =
         outcome.result.value.sessionInfo.sessionId
  /\ \A e \in issued : e.claims.sid = e.root.sid
\* The list holds some version twice.
HasDuplicateVersion(migrations) ==
  \E i, j \in 1..Len(migrations) : i # j /\ migrations[i].version = migrations[j].version

\* Each version of the list sorts strictly before the next one.
StrictlyAscending(migrations) ==
  \A i \in 1..(Len(migrations) - 1) :
    CompareVersions(migrations[i].version, migrations[i + 1].version) < 0

\* C20: a run over a list that holds a duplicate version, or is not in
\* strictly ascending version order, has rejected with MigrationValidationError
\* without one call of ensureMetadataTable, listAppliedMigrations,
\* applyMigrationSql or recordAppliedMigration, and no statement has been
\* executed, whatever rows the metadata table holds.
C20_ValidationPrecedesExecution ==
  (mig.pc # "idle" /\ (HasDuplicateVersion(plan) \/ ~StrictlyAscending(plan)))
    => /\ mig.pc = "done"
       /\ ~mig.result.ok
       /\ mig.result.error.name = "MigrationValidationError"
       /\ mig.calls = NoCalls
       /\ \A v \in Versions : db.executed[v] = 0

\* A second run over a list whose duplicate is not adjacent, or over one that
\* descends, against a table that holds rows, was rejected.
C20_Witness ==
  /\ runs = 2
  /\ mig.pc = "done"
  /\ db.applied # {}
  /\ \/ [i \in 1..Len(plan) |-> plan[i].version] = <<<<1>>, <<2>>, <<1>>>>
     \/ [i \in 1..Len(plan) |-> plan[i].version] = <<<<2>>, <<1, 0>>>>
  /\ ~mig.result.ok
  /\ mig.result.error.name = "MigrationValidationError"
  /\ mig.calls = NoCalls

\* The versions of the list, in order.
VersionsOf(migrations) == [i \in 1..Len(migrations) |-> migrations[i].version]

\* The elements of the sequence that are in the set, in order.
RECURSIVE Among(_, _)
Among(seq, set) ==
  IF seq = <<>> THEN <<>>
  ELSE IF Head(seq) \in set THEN <<Head(seq)>> \o Among(Tail(seq), set)
  ELSE Among(Tail(seq), set)

\* The run in progress follows a run of the same list that resolved.
AfterSuccessfulRun == mig.pc # "idle" /\ mig.last # NoOutcome /\ mig.last.ok

\* C21: a run that follows a successful run of the same list against the same
\* database calls neither applyMigrationSql nor recordAppliedMigration, and
\* when it resolves it reports appliedVersions = [] and skippedVersions = the
\* versions the first run applied or skipped, in the order of the list.
C21_SecondRunSkipsAll ==
  AfterSuccessfulRun
    => /\ mig.pc \notin {"apply", "record"}
       /\ mig.calls.applyMigrationSql = 0
       /\ mig.calls.recordAppliedMigration = 0
       /\ (mig.pc = "done" /\ mig.result.ok)
            => /\ mig.result.value.appliedVersions = <<>>
               /\ mig.result.value.skippedVersions =
                    Among(VersionsOf(plan),
                          Range(mig.last.value.appliedVersions)
                            \cup Range(mig.last.value.skippedVersions))

\* A second run resolved after a first run that applied two migrations and
\* skipped one.
C21_Witness ==
  /\ AfterSuccessfulRun
  /\ mig.pc = "done"
  /\ mig.result.ok
  /\ Len(mig.last.value.appliedVersions) = 2
  /\ Len(mig.last.value.skippedVersions) = 1
  /\ Len(mig.result.value.skippedVersions) = 3

\* The migration at index i of a valid list is within the ceiling and is
\* recorded in the metadata table with another checksum than the list's.
DriftAt(i) ==
  /\ StrictlyAscending(plan)
  /\ i \in 1..Len(plan)
  /\ ~(HasCeiling(target) /\ CompareVersions(plan[i].version, target.value) > 0)
  /\ \E row \in db.applied :
       row.version = plan[i].version /\ row.checksum # plan[i].checksum

\* The error of a run that met the drifted version.
ChecksumMismatch(version) ==
  MigrationValidationError("Checksum mismatch for applied migration "
                             \o VersionText(version) \o ".")

FailedApplying ==
  /\ mig.pc = "done"
  /\ mig.calls.applyMigrationSql > Len(mig.appliedVersions)

\* C23: a run in which applying or recording the migration with version v
\* threw is rejected with MigrationApplyError carrying v; it called
\* applyMigrationSql for no migration after v and changed no row of one, and
\* the migrations it applied before v are recorded with the list's checksums.
C23_ApplyFailureHaltsRun ==
  FailedApplying
    => LET v == plan[mig.index].version IN
       /\ mig.result = Rejected(MigrationApplyError(v, AdapterError))
       /\ mig.result.error.name = "MigrationApplyError"
       /\ mig.result.error.version = v
       /\ mig.calls.applyMigrationSql = Len(mig.appliedVersions) + 1
       /\ mig.calls.recordAppliedMigration
            \in {Len(mig.appliedVersions), Len(mig.appliedVersions) + 1}
       /\ \A j \in 1..Len(plan) :
            /\ plan[j].version \in Range(mig.appliedVersions)
                 => j < mig.index /\ plan[j] \in db.applied
            /\ j > mig.index
                 => /\ {row \in db.applied : row.version = plan[j].version}
                         = {row \in mig.applied : row.version = plan[j].version}
                    /\ runs = 1 => db.executed[plan[j].version] = 0
       /\ \A row \in db.applied : row.version # v

\* A run applied "1", then failed recording "10" after executing its SQL;
\* "2" was not touched.
C23_Witness ==
  /\ FailedApplying
  /\ runs = 1
  /\ VersionsOf(plan) = <<<<1>>, <<1, 0>>, <<2>>>>
  /\ mig.appliedVersions = <<<<1>>>>
  /\ mig.calls.recordAppliedMigration = 2
  /\ mig.result.error.version = <<1, 0>>
  /\ db.executed[<<1, 0>>] = 1
  /\ db.executed[<<2>>] = 0

\* C24: a run that resolves with a target T has applied or skipped only
\* versions not above T and, in a first run, executed none above T; it
\* reports currentVersion = T when a target was given, otherwise the last
\* version of the list.
C24_CeilingAndReportedVersion ==
  (mig.pc = "done" /\ mig.result.ok)
    => LET report == mig.result.value IN
       /\ target.defined
            => /\ \A v \in Range(report.appliedVersions) \cup Range(report.skippedVersions) :
                    CompareVersions(v, target.value) <= 0
               /\ runs = 1
                    => \A v \in Versions :
                         CompareVersions(v, target.value) > 0 => db.executed[v] = 0
               /\ report.currentVersion = target.value
       /\ (~target.defined /\ plan # <<>>)
            => report.currentVersion = plan[Len(plan)].version

\* The call is between the start of its operation and its settlement.
Running(k) == invocations[k].pc \in {"token", "sending", "refreshing"}

\* C25: the calls of one client instance run one at a time in call order: at
\* most one operation runs and at most one transport.send is in flight, a
\* call has started only when every earlier call has settled, and a queued
\* call whose predecessors have all settled, fulfilled or rejected, can start.
C25_ClientCallsSerialized ==
  /\ Cardinality({k \in 1..Len(invocations) : Running(k)}) <= 1
  /\ Cardinality({k \in 1..Len(invocations) : invocations[k].pc = "sending"}) <= 1
  /\ \A j, k \in 1..Len(invocations) :
       (j < k /\ invocations[k].pc # "queued") => invocations[j].pc = "settled"
  /\ \A k \in 1..Len(invocations) :
       (/\ invocations[k].pc = "queued"
        /\ \A j \in 1..(k - 1) : invocations[j].pc = "settled")
         => ENABLED BeginOperation(k)

\* The first call was rejected by the transport, the second with a
\* ClientRpcError, and the third, invoked before the first settled, is sending.
C25_Witness ==
  /\ Len(invocations) = 3
  /\ invocations[1].result = Rejected(RuntimeError)
  /\ invocations[2].result = Rejected(ClientRpcError(403))
  /\ invocations[3].pc = "sending"

\* The first registration made under the key is the n-th.
FirstFor(key, n) ==
  /\ registrations[n].key = key
  /\ \A m \in 1..(n - 1) : registrations[m].key # key

\* C26: after any sequence of registerViewController calls, a call threw
\* exactly when its key had been registered before, each key has at most one
\* entry, and resolveViewController(key) is the entry of the first
\* registration made under the key (undefined when there was none).
C26_RegistryKeysUnique ==
  /\ \A n \in 1..Len(registrations) :
       registrations[n].threw <=> ~FirstFor(registrations[n].key, n)
  /\ \A e1, e2 \in controllerRegistry : e1.key = e2.key => e1 = e2
  /\ \A key \in RegistryKeys :
       LET entry == ResolveViewController(controllerRegistry, key) IN
       IF \E n \in 1..Len(registrations) : registrations[n].key = key
       THEN \E n \in 1..Len(registrations) :
              /\ FirstFor(key, n)
              /\ entry.registered
              /\ entry.key = key
              /\ entry.controller = registrations[n].controller
       ELSE entry = NotRegistered

\* "a" was registered with class A, and a later registration of "a" with
\* class B threw; "a" still resolves to A.
C26_Witness ==
  /\ Len(registrations) >= 2
  /\ registrations[1] = [key |-> "a", controller |-> "A", threw |-> FALSE]
  /\ registrations[2] = [key |-> "a", controller |-> "B", threw |-> TRUE]
  /\ ResolveViewController(controllerRegistry, "a").controller = "A"

\* C27: whenever no acquisition of a lock key is held or pending, the lock
\* manager's map has no entry for the key.
C27_LockEntriesCollected ==
  \A lockKey \in LockKeys :
    (\A c \in Callers :
       call[c].pc \in {"waiting", "holding"}
         => LockKey(call[c].sessionId, call[c].viewKey) # lockKey)
      => locks[lockKey] = NoEntry

\* The earliest check, in the order route key, body.method, controller,
\* callable, authentication, roles, that what the request carries fails.
FirstFailure(asked) ==
  IF asked.key = "" THEN "route"
  ELSE IF asked.method = "" THEN "body"
  ELSE IF ~Registry(asked.key).registered THEN "controller"
  ELSE IF ~HasCallable(Registry(asked.key), asked.method) THEN "callable"
  ELSE IF ~asked.session.ok THEN "auth"
  ELSE IF ~HasRequiredRole(asked.session.roles, Registry(asked.key).roles) THEN "role"
  ELSE IF ~HasRequiredRole(asked.session.roles,
                           FindCallable(Registry(asked.key), asked.method).allowedRoles)
  THEN "role"
  ELSE ""

\* The status written for a request rejected by one of the checks made
\* before requireSession.
EarlyStatus(site) == IF site \in {"route", "body"} THEN 400 ELSE 404

\* C28: a request is rejected by the earliest check it fails, in the order
\* route key, body.method, controller, callable, authentication, roles; when
\* that is one of the first four, requireSession was not invoked and the
\* response (when no next callback takes the error) is 400 or 404, whatever
\* its credentials are; a request that fails none reaches the lock.
C28_CheckOrder ==
  LET rec == call[1]
      failure == FirstFailure(rec.asked)
  IN rec.pc # "new"
       => /\ failure \in {"route", "body", "controller", "callable"}
               => /\ rec.pc = "done"
                  /\ rec.failedAt = failure
                  /\ rec.sessionCalls = 0
                  /\ rec.next = "absent" \/ failure = "route"
                       => rec.status = EarlyStatus(failure)
                  /\ refreshTokens = {} /\ issued = {}
          /\ failure \in {"auth", "role"}
               => /\ rec.sessionCalls = 1
                  /\ rec.pc \in {"auth", "done"}
                  /\ rec.pc = "done" => rec.failedAt = failure
          /\ failure = ""
               => /\ rec.sessionCalls = 1
                  /\ rec.failedAt \notin {"route", "body", "controller", "callable",
                                          "auth", "role"}

\* A request naming an unknown controller, with an expired token, was
\* answered 404 and requireSession was not invoked; so was one naming an
\* unknown callable with no Authorization header.
C28_Witness ==
  LET rec == call[1] IN
  /\ rec.pc = "done"
  /\ rec.status = 404
  /\ rec.sessionCalls = 0
  /\ \/ rec.asked.key = "zz" /\ rec.asked.session.error = "Token expired."
     \/ /\ rec.asked.key = "c" /\ rec.asked.method = "nope"
        /\ rec.asked.session.error = "Missing Authorization header."

\* C29: a request rejected by the route-key, body, controller, callable,
\* authentication or role check never called acquire, entered no try block
\* (no hook, initializer or method ran, no header was written) and left the
\* store as it was; a request rejected by the role check had been
\* authenticated, and a request that called acquire had passed the role check.
C29_NoEffectsBeforeLock ==
  LET rec == call[1]
      failure == FirstFailure(rec.asked)
  IN /\ (rec.pc = "done" /\ rec.failedAt \in {"route", "body", "controller", "callable",
                                               "auth", "role"})
          => /\ \A lockKey \in LockKeys :
                  /\ arrivals[lockKey] = <<>>
                  /\ grants[lockKey] = <<>>
                  /\ locks[lockKey] = NoEntry
             /\ current[1] = NoEntry
             /\ rec.releases = 0
             /\ ~rec.headers /\ ~rec.created /\ ~rec.persisted
             /\ store = store0
             /\ \A p \in Pairs : initCalls[p] = 0
     /\ (rec.pc = "done" /\ rec.failedAt = "role")
          => rec.asked.session.ok /\ rec.sessionCalls = 1
     /\ (\E lockKey \in LockKeys : arrivals[lockKey] # <<>>)
          => failure = "" /\ rec.asked.session.ok

\* An authenticated request whose roles do not satisfy the controller was
\* rejected by the role check; no lock key has an arrival.
C29_Witness ==
  LET rec == call[1] IN
  /\ rec.pc = "done"
  /\ rec.failedAt = "role"
  /\ rec.asked.session.ok
  /\ rec.asked.session.roles = RoleList(<<"y">>)
  /\ \A lockKey \in LockKeys : arrivals[lockKey] = <<>>
  /\ store = store0

\* C30: a call answered 200 saved its view data after its method, changed
\* or not: the save wrote the serialized context.viewData while the call held
\* the lock and before a status was written, and when the 200 is written,
\* still before the release, the body's viewData is what the stored record
\* of the pair parses to.
C30_UnconditionalPersist ==
  /\ [](\A r \in Requests : call[r].status = 200 => call[r].persisted)
  /\ [][\A r \in Requests :
          /\ (call[r].pc = "persist" /\ call'[r].pc = "respond")
               => /\ ~call[r].persisted /\ call'[r].persisted
                  /\ store'[PairOf(r)] = Stringify(call[r].viewData)
                  /\ call[r].releases = 0
                  /\ call'[r].status = 0
          /\ (call[r].pc = "respond" /\ call'[r].pc = "done")
               => /\ call'[r].status = 200
                  /\ call[r].persisted
                  /\ call[r].releases = 0
                  /\ r \notin nextResolved
                  /\ Parse(store[PairOf(r)]) = call'[r].bodyViewData
                  /\ store' = store]_vars

\* A call that added 0 was answered 200 after its save, and another call on
\* the same pair, which added 1, also was.
C30_Witness ==
  \E r, q \in Requests :
    /\ r # q
    /\ PairOf(r) = PairOf(q)
    /\ call[r].status = 200 /\ call[r].amount = 0 /\ call[r].persisted
    /\ call[q].status = 200 /\ call[q].amount = 1 /\ call[q].persisted
    /\ Parse(store[PairOf(r)]) = Counter(1)

\* C31: a call whose onBeforeCall hook or method throws skips the final save:
\* the stored record of its pair is then the serialized view data the call
\* was hydrated with (the record found, or the created initial state, which
\* stays stored), and no later call on the pair runs the initializer.  A call
\* whose authorize hook throws leaves the store as it was and has not invoked
\* the initializer.
C31_FailedCallKeepsHydratedRecord ==
  [][\A r \in Requests :
       /\ (call[r].pc \in {"beforeCall", "method"} /\ call'[r].pc = "done")
            => /\ call'[r].failedAt = call[r].pc
               /\ store' = store
               /\ RecordPresent(store'[PairOf(r)])
               /\ store'[PairOf(r)] = Stringify(call[r].viewData)
               /\ initCalls' = initCalls
       /\ (call[r].pc = "authorize" /\ call'[r].pc = "done")
            => /\ call'[r].failedAt = "authorize"
               /\ store' = store
               /\ initCalls' = initCalls
               /\ ~call'[r].created
       /\ (call[r].failedAt \in {"beforeCall", "method"})
            => /\ RecordPresent(store[PairOf(r)])
               /\ initCalls'[PairOf(r)] = initCalls[PairOf(r)]]_vars

\* A call created the initial state and then failed in its method; a later
\* call on the same pair found the record, was answered 200, and the
\* initializer ran once for the pair.
C31_Witness ==
  \E r, q \in Requests :
    /\ r # q
    /\ PairOf(r) = PairOf(q)
    /\ call[r].failedAt = "method" /\ call[r].created
    /\ call[q].status = 200 /\ ~call[q].created /\ call[q].amount = 1
    /\ initCalls[PairOf(r)] = 1
    /\ Parse(store[PairOf(r)]) = Counter(1)

\* C32: a call that finds no record for its pair, on a controller without
\* createViewData, fails with "ViewData initializer missing." (500 with that
\* message when no next was passed, else the error goes to next): no record
\* is created, the initializer count is unchanged, neither onBeforeCall nor
\* the method is reached, and the lock is released.  A call that finds a
\* record is hydrated from it and goes on to onBeforeCall or the method,
\* initializer or not.
C32_MissingInitializer ==
  [][LET rec == call[1]
         after == call'[1]
         key == PairOf(1) IN
     (rec.pc = "load" /\ after # rec /\ after.failedAt # "load")
       => /\ (~RecordPresent(store[key]) /\ ~Registry(rec.viewKey).hasCreate)
               => /\ after.failedAt = "initializer"
                  /\ after.pc = "done"
                  /\ after.next = "absent"
                       => /\ after.status = 500
                          /\ after.error = "ViewData initializer missing."
                  /\ after.next = "supplied"
                       => /\ after.forwarded = "ViewData initializer missing."
                          /\ after.status = 0
                  /\ store' = store /\ store = store0
                  /\ initCalls' = initCalls
                  /\ ~after.created /\ ~after.persisted
                  /\ rec.releases = 0 /\ after.releases = 1
                  /\ 1 \notin nextResolved /\ 1 \in nextResolved'
          /\ RecordPresent(store[key])
               => /\ after.failedAt = ""
                  /\ after.pc = AfterHydrate(rec.viewKey)
                  /\ after.viewData = Parse(store[key])
                  /\ store' = store
                  /\ initCalls' = initCalls]_vars

\* The call found no record, its controller has no initializer, no next was
\* passed: it was answered 500 with the message, the store is as before.
C32_Witness ==
  LET rec == call[1] IN
  /\ rec.pc = "done"
  /\ rec.failedAt = "initializer"
  /\ ~Registry(rec.viewKey).hasCreate
  /\ rec.status = 500 /\ rec.error = "ViewData initializer missing."
  /\ rec.releases = 1
  /\ store = store0
  /\ \E p \in Pairs : RecordPresent(store[p])

\* A controller without an initializer served a call from a stored record.
C32_StoredRecordServed ==
  LET rec == call[1] IN
  /\ rec.status = 200
  /\ ~Registry(rec.viewKey).hasCreate
  /\ RecordPresent(store0[PairOf(1)])
  /\ rec.bodyViewData = Counter(2)

\* C33: when requireSession returned refreshedTokens and the lock was
\* acquired, the token headers are on the response from the step in which
\* acquire() resolved, hence before the authorize hook, hydration,
\* onBeforeCall and the method, and they stay when one of those fails; they
\* are written in no other case.
C33_RefreshedTokensFirst ==
  LET rec == call[1]
      acquired == \E lockKey \in LockKeys : 1 \in Range(grants[lockKey])
      inTry == {"authorize", "load", "create", "saveInit", "beforeCall", "method",
                "persist", "respond"}
      failures == {"authorize", "load", "initializer", "create", "saveInit",
                   "beforeCall", "method", "persist"}
  IN /\ rec.headers <=> (acquired /\ rec.asked.refreshed)
     /\ (rec.pc \in inTry \/ rec.failedAt \in failures \/ rec.status = 200) => acquired
     /\ ~acquired => /\ rec.pc \notin inTry
                     /\ rec.failedAt \notin failures
                     /\ ~rec.created /\ ~rec.persisted /\ store = store0

\* The session result carried refreshed tokens, the method threw, and the
\* headers are on the response.
C33_Witness ==
  LET rec == call[1] IN
  /\ rec.asked.refreshed
  /\ rec.pc = "done"
  /\ rec.failedAt = "method"
  /\ rec.headers

\* The checks of a three-segment token, in the order the spec gives them,
\* each decided on its own.
VerificationChecks == <<"signature", "issuer", "audience", "expiry", "type">>

CheckFails(check, config, time, token, typ) ==
  LET parts == SplitDots(token)
      claims == DecodeBase64Url(parts[2])
  IN CASE check = "signature" -> parts[3] # Sign(config.secret, parts[1], parts[2])
       [] check = "issuer" -> Truthy(config.issuer) /\ Prop(claims, "iss") # config.issuer
       [] check = "audience" -> Truthy(config.audience) /\ Prop(claims, "aud") # config.audience
       [] check = "expiry" -> claims.exp * MsPerSecond < time
       [] check = "type" -> Prop(claims, "typ") # Some(typ)

CheckError(check) ==
  CASE check = "signature" -> "Invalid token signature."
    [] check = "issuer" -> "Invalid token issuer."
    [] check = "audience" -> "Invalid token audience."
    [] check = "expiry" -> "Token expired."
    [] check = "type" -> "Invalid token type."

FailedChecks(config, time, token, typ) ==
  {i \in DOMAIN VerificationChecks :
     CheckFails(VerificationChecks[i], config, time, token, typ)}

\* C34: a token that does not have three segments is rejected as malformed;
\* any other token is rejected with the error of the first check it fails in
\* the order signature, issuer, audience, expiry, type, and accepted when it
\* fails none.  A badly signed token is rejected for its signature whatever
\* its claims are.
C34_FirstFailingCheck ==
  outcome.op = "verify" =>
    LET token == outcome.input
        failed == FailedChecks(tokenConfig, outcome.time, token, outcome.typ)
    IN IF Len(SplitDots(token)) # 3
       THEN outcome.result = Rejected("Malformed token.")
       ELSE IF failed = {}
       THEN outcome.result.ok
       ELSE /\ ~outcome.result.ok
            /\ \E i \in failed :
                 /\ \A j \in failed : i <= j
                 /\ outcome.result.error = CheckError(VerificationChecks[i])

\* A token that is badly signed, from another issuer and for another
\* audience, expired and of the wrong type was rejected for its signature.
C34_Witness ==
  /\ outcome.op = "verify"
  /\ Len(SplitDots(outcome.input)) = 3
  /\ FailedChecks(tokenConfig, outcome.time, outcome.input, outcome.typ)
       = DOMAIN VerificationChecks
  /\ outcome.result = Rejected("Invalid token signature.")

\* An expired token of the wrong type, well signed, was rejected as expired.
C34_ExpiredWrongType ==
  /\ outcome.op = "verify"
  /\ Len(SplitDots(outcome.input)) = 3
  /\ FailedChecks(tokenConfig, outcome.time, outcome.input, outcome.typ) = {4, 5}
  /\ outcome.result = Rejected("Token expired.")

\* C36 (as claimed): the sessionInfo that authenticateUser returns carries
\* the session id that is the sid claim of the access token it returns.
C36_LoginSessionIdIsSid ==
  (outcome.op = "authenticateUser" /\ outcome.result.ok) =>
    outcome.result.value.sessionInfo.sessionId =
      Text(PayloadClaims(outcome.result.value.tokens.accessToken).sid)

\* The session ids of the sessions the manager has created.
IssuedSessionIds == {e.claims.sid : e \in issued}

\* C37 (as claimed): a createSession or authenticateUser call yields a
\* session id that no session created before has.
C37_SessionIdsUnique ==
  [][(outcome.op = "none" /\ outcome'.op \in {"createSession", "authenticateUser"}
        /\ outcome'.result.ok)
       => LET tokens == IF outcome'.op = "createSession"
                        THEN outcome'.result.value
                        ELSE outcome'.result.value.tokens
          IN PayloadClaims(tokens.accessToken).sid \notin IssuedSessionIds]_vars

\* C35 (as claimed): a caller that adopts the refreshed access token after
\* each successful call is hydrated, at its next successful call, from the
\* view data its previous call persisted: the initializer does not run again
\* and the body's counter is the previous body's counter plus the amount.
C35_ContinuityAcrossRefresh ==
  [][(outcome'.op = "invoke" /\ outcome'.status = 200 /\ call.calls >= 1
        /\ call'.calls = call.calls + 1)
       => /\ ~outcome'.created
          /\ outcome'.viewData = Counter(call.viewData.counter + outcome'.amount)]_vars

\* C38 (as claimed): over the runs against one database, failed ones
\* included, the SQL of a version is executed successfully at most once, and
\* once a run has ended every version whose SQL was executed is recorded as
\* applied.
C38_SqlAtMostOnce ==
  /\ \A v \in Versions : db.executed[v] <= 1
  /\ mig.pc = "done"
       => \A v \in Versions :
            db.executed[v] >= 1 => \E row \in db.applied : row.version = v

WithinCeiling ==
  {v \in Versions : ~(HasCeiling(target) /\ CompareVersions(v, target.value) > 0)}

\* C40: the report of a run that resolved: skippedVersions are the versions
\* of the list within the ceiling that were recorded before the run,
\* appliedVersions those that were not, each in the order of the list and
\* the two disjoint; applyMigrationSql and recordAppliedMigration were called
\* once per applied version, and each SQL was executed when every version
\* applied before it in the run, all of them lower, had been recorded.
C40_ReportConsistent ==
  /\ [](( mig.pc = "done" /\ mig.result.ok)
          => LET report == mig.result.value
                 within == Among(VersionsOf(plan), WithinCeiling)
                 recordedBefore == {row.version : row \in mig.applied}
             IN /\ report.skippedVersions = Among(within, recordedBefore)
                /\ report.appliedVersions = Among(within, Versions \ recordedBefore)
                /\ Range(report.appliedVersions) \cap Range(report.skippedVersions) = {}
                /\ mig.calls.applyMigrationSql = Len(report.appliedVersions)
                /\ mig.calls.recordAppliedMigration = Len(report.appliedVersions)
                /\ \A v \in Range(report.appliedVersions) :
                     /\ db.executed[v] >= 1
                     /\ \E row \in db.applied : row.version = v)
  /\ [][(mig.pc = "apply" /\ mig'.pc = "record")
         => LET v == plan[mig.index].version IN
            /\ db'.executed = [db.executed EXCEPT ![v] = CountExecution(@)]
            /\ v \notin Range(mig.appliedVersions)
            /\ mig.calls.recordAppliedMigration = Len(mig.appliedVersions)
            /\ \A u \in Range(mig.appliedVersions) :
                 /\ CompareVersions(u, v) < 0
                 /\ \E row \in db.applied : row.version = u]_vars

\* A run of the list "1", "10", "2" that found "10" recorded resolved with
\* "1" and "2" applied and "10" skipped.
C40_Witness ==
  /\ mig.pc = "done" /\ mig.result.ok
  /\ runs = 1
  /\ VersionsOf(plan) = <<<<1>>, <<1, 0>>, <<2>>>>
  /\ mig.result.value.appliedVersions = <<<<1>>, <<2>>>>
  /\ mig.result.value.skippedVersions = <<<<1, 0>>>>
  /\ mig.calls.applyMigrationSql = 2

\* A run with a ceiling resolved without reaching the versions above it.
C40_CeilingCuts ==
  /\ mig.pc = "done" /\ mig.result.ok
  /\ HasCeiling(target)
  /\ Len(plan) = 3
  /\ Len(mig.result.value.appliedVersions) = 1
  /\ Len(mig.result.value.skippedVersions) = 1

====
